---- MODULE Spec2Model ----
(***************************************************************************)
(* Model of the reentrant getopt engine of lib/posix/c_lib_ext:            *)
(* zephyr_getopt() with its helpers getopt_char_to_mask_index(),           *)
(* getopt_parse_optstring() and getopt_match_longopt(), driven by callers  *)
(* that own one state quadruple (optarg, opterr, optind, optopt) each.     *)
(*                                                                         *)
(* C strings are sequences of one-character strings; s[0] of the code is   *)
(* At(s, 0) here and the terminator is NUL.  C int values that are         *)
(* returned or stored are written by name: a character by itself, 0 by     *)
(* NUL and -1 by EOF.  A 64-bit mask is the set of its set bit indices.    *)
(* A char pointer into argv is the pair (element index, offset).           *)
(***************************************************************************)
EXTENDS Integers, Sequences, FiniteSets, TLC

\* ------------------------------------------------------------------------
\* Bounds of the model
\* ------------------------------------------------------------------------

\* most argv elements after argv[0]
MaxArgs == 2

\* most engine calls per quadruple
MaxCalls == 3

\* most caller writes to optind per quadruple
MaxSets == 1

\* the same three bounds for sessions with a long option table
MaxArgsLong == 2

MaxCallsLong == 3

MaxSetsLong == 1

\* the same three bounds where two quadruples are in use
MaxArgsRe == 2

MaxCallsRe == 2

MaxSetsRe == 1
MaxArgsMix == 3
MaxCallsMix == 3
MaxArgsWrap == 2
MaxCallsWrap == 2
MaxArgsCross == 2
MaxCallsCross == 2
MaxOptLen == 4
MaxCallsFar == 3
MaxCallsWide == 3

\* ------------------------------------------------------------------------
\* Values
\* ------------------------------------------------------------------------

\* '\0', also the int 0
NUL == "NUL"

\* the int -1
EOF == "EOF"

\* outcome of a call that does not return (fault on an invalid access)
FAULT == "FAULT"

\* width of the two halves of union opterr_state
U16 == 65536

Lower ==
  << "a", "b", "c", "d", "e", "f", "g", "h", "i", "j", "k", "l", "m",
     "n", "o", "p", "q", "r", "s", "t", "u", "v", "w", "x", "y", "z" >>

Upper ==
  << "A", "B", "C", "D", "E", "F", "G", "H", "I", "J", "K", "L", "M",
     "N", "O", "P", "Q", "R", "S", "T", "U", "V", "W", "X", "Y", "Z" >>

Digit ==
  << "0", "1", "2", "3", "4", "5", "6", "7", "8", "9" >>

InSeq(seq, c) == \E n \in 1..Len(seq) : seq[n] = c

PosIn(seq, c) == (CHOOSE n \in 1..Len(seq) : seq[n] = c) - 1

\* s[j] of a C string
At(s, j) == IF j >= 0 /\ j < Len(s) THEN s[j + 1] ELSE NUL

\* the C string that starts at s + j
Suffix(s, j) == SubSeq(s, j + 1, Len(s))

NullPtr == [i |-> -1, off |-> 0]

Ptr(i, off) == [i |-> i, off |-> off]

\* argv[i] of the code
Argv(argv, i) == argv[i + 1]

\* the string a char pointer into argv points to
\* the element of a one-element set; { e(x) : x \in {v} } inside it gives
\* e(v) with v computed once
The(S) == CHOOSE v \in S : TRUE

Content(argv, p) == Suffix(Argv(argv, p.i), p.off)

\* ------------------------------------------------------------------------
\* getopt_char_to_mask_index
\* ------------------------------------------------------------------------

getopt_char_to_mask_index(c) ==
  IF InSeq(Lower, c) THEN PosIn(Lower, c)
  ELSE IF InSeq(Upper, c) THEN PosIn(Upper, c) + 26
  ELSE IF InSeq(Digit, c) THEN PosIn(Digit, c) + 52
  ELSE -1

\* ------------------------------------------------------------------------
\* getopt_parse_optstring
\* ------------------------------------------------------------------------

\* parse_loop in which a later occurrence of a character registers it again
RECURSIVE parse_loop_again(_, _, _, _, _, _)
parse_loop_again(o, p, last, omask, amask, colon) ==
  IF At(o, p) = NUL
  THEN [omask |-> omask, amask |-> amask, colon |-> colon]
  ELSE LET c == At(o, p)
           idx == getopt_char_to_mask_index(c)
       IN IF last = EOF /\ c = ":"
          THEN parse_loop_again(o, p + 1, c, omask, amask, TRUE)
          ELSE IF idx < 0
          THEN parse_loop_again(o, p + 1, c, omask, amask, colon)
          ELSE IF At(o, p + 1) = ":"
          THEN parse_loop_again(o, p + 2, ":", omask \cup {idx}, amask \cup {idx}, colon)
          ELSE parse_loop_again(o, p + 1, c, omask \cup {idx}, amask \ {idx}, colon)

\* parse_loop that registers the characters without a mask index as well
RECURSIVE parse_loop_invalid(_, _, _, _, _, _)
parse_loop_invalid(o, p, last, omask, amask, colon) ==
  IF At(o, p) = NUL
  THEN [omask |-> omask, amask |-> amask, colon |-> colon]
  ELSE LET c == At(o, p)
           idx == getopt_char_to_mask_index(c)
       IN IF last = EOF /\ c = ":"
          THEN parse_loop_invalid(o, p + 1, c, omask, amask, TRUE)
          ELSE IF idx \in omask
          THEN parse_loop_invalid(o, p + 1, c, omask, amask, colon)
          ELSE IF At(o, p + 1) = ":"
          THEN parse_loop_invalid(o, p + 2, ":", omask \cup {idx}, amask \cup {idx}, colon)
          ELSE parse_loop_invalid(o, p + 1, c, omask \cup {idx}, amask, colon)

\* one round of the for loop at position p of o, with the loop variable last
RECURSIVE parse_loop(_, _, _, _, _, _)
parse_loop(o, p, last, omask, amask, colon) ==
  IF At(o, p) = NUL
  THEN [omask |-> omask, amask |-> amask, colon |-> colon]
  ELSE LET c == At(o, p)
           idx == getopt_char_to_mask_index(c)
       IN IF last = EOF /\ c = ":"
          THEN parse_loop(o, p + 1, c, omask, amask, TRUE)
          ELSE IF idx < 0
          THEN parse_loop(o, p + 1, c, omask, amask, colon)
          ELSE IF idx \in omask
          THEN parse_loop(o, p + 1, c, omask, amask, colon)
          ELSE IF At(o, p + 1) = ":"
          THEN parse_loop(o, p + 2, ":", omask \cup {idx}, amask \cup {idx}, colon)
          ELSE parse_loop(o, p + 1, c, omask \cup {idx}, amask, colon)

getopt_parse_optstring(o) == parse_loop(o, 0, EOF, {}, {}, FALSE)

\* ------------------------------------------------------------------------
\* getopt_match_longopt
\* ------------------------------------------------------------------------

\* strncmp(arg + off, name, strlen(name)) == 0
strncmp_eq(arg, off, name) ==
  \A t \in 0..(Len(name) - 1) : At(arg, off + t) = name[t + 1]

\* number of leading dash characters skipped before the name is compared,
\* or -1 where the function returns at once to continue with short options
long_skip_dashes(arg, longonly) ==
  IF At(arg, 0) = "-"
  THEN IF At(arg, 1) = "-" THEN 2 ELSE -1
  ELSE 0

long_skip(arg, longonly) ==
  IF At(arg, 0) = "-"
  THEN IF At(arg, 1) = "-" THEN 2
       ELSE IF longonly THEN 1
       ELSE -1
  ELSE 0

\* return colon_at_start ? ':' : '?'
long_err(colon) == IF colon THEN ":" ELSE "?"

\* long_commit that stores the position of the entry counted from 1
long_commit_from1(s, opt, i, wantIndex, newind) ==
  LET ret == IF opt.flag = "NULL" THEN opt.val ELSE NUL
      s1 == [s EXCEPT !.optind = newind,
                      !.longindex = IF wantIndex THEN i + 1 ELSE @,
                      !.optopt = ret]
  IN [ret |-> ret,
      s |-> IF opt.flag = "NULL" THEN s1
            ELSE [s1 EXCEPT !.flags = [@ EXCEPT ![opt.flag] = opt.val]]]

\* long_commit that returns the value of the entry also when it stored it
\* through the flag pointer
long_commit_val(s, opt, i, wantIndex, newind) ==
  LET s1 == [s EXCEPT !.optind = newind,
                      !.longindex = IF wantIndex THEN i ELSE @,
                      !.optopt = opt.val]
  IN [ret |-> opt.val,
      s |-> IF opt.flag = "NULL" THEN s1
            ELSE [s1 EXCEPT !.flags = [@ EXCEPT ![opt.flag] = opt.val]]]

\* long_commit that leaves optind at the element of the option
long_commit_stay(s, opt, i, wantIndex, newind) ==
  LET ret == IF opt.flag = "NULL" THEN opt.val ELSE NUL
      s1 == [s EXCEPT !.longindex = IF wantIndex THEN i ELSE @,
                      !.optopt = ret]
  IN [ret |-> ret,
      s |-> IF opt.flag = "NULL" THEN s1
            ELSE [s1 EXCEPT !.flags = [@ EXCEPT ![opt.flag] = opt.val]]]

\* the stores and the return value of a successful match of entry i
long_commit(s, opt, i, wantIndex, newind) ==
  LET ret == IF opt.flag = "NULL" THEN opt.val ELSE NUL
      s1 == [s EXCEPT !.optind = newind,
                      !.longindex = IF wantIndex THEN i ELSE @,
                      !.optopt = ret]
  IN [ret |-> ret,
      s |-> IF opt.flag = "NULL" THEN s1
            ELSE [s1 EXCEPT !.flags = [@ EXCEPT ![opt.flag] = opt.val]]]

\* long_no_argument that stores the index and the flag before it compares
\* the entry with the short option
long_no_argument_late(in, idx, m, s, opt, i) ==
  LET short_idx == getopt_char_to_mask_index(opt.val)
      r == long_commit(s, opt, i, in.wantIndex, idx + 1)
  IN IF short_idx >= 0 /\ short_idx \in m.amask
     THEN [ret |-> long_err(m.colon),
           s |-> [r.s EXCEPT !.optind = s.optind, !.optopt = s.optopt]]
     ELSE r

\* case no_argument
long_no_argument(in, idx, m, s, opt, i) ==
  LET short_idx == getopt_char_to_mask_index(opt.val)
  IN IF short_idx >= 0 /\ short_idx \in m.amask
     THEN [ret |-> long_err(m.colon), s |-> s]
     ELSE long_commit(s, opt, i, in.wantIndex, idx + 1)

\* long_required_argument whose separate form steps over the option only
long_required_argument_one(in, idx, m, s, opt, i, off) ==
  LET short_idx == getopt_char_to_mask_index(opt.val)
      arg == Argv(in.argv, idx)
      e == off + Len(opt.name)
  IN IF short_idx >= 0 /\ short_idx \notin m.amask
     THEN [ret |-> long_err(m.colon), s |-> s]
     ELSE IF At(arg, e) = "="
     THEN IF At(arg, e) = NUL
          THEN [ret |-> long_err(m.colon), s |-> s]
          ELSE long_commit([s EXCEPT !.optarg = Ptr(idx, e + 1)], opt, i,
                           in.wantIndex, idx + 1)
     ELSE IF idx + 1 >= Len(in.argv)
          THEN [ret |-> long_err(m.colon), s |-> s]
          ELSE long_commit([s EXCEPT !.optarg = Ptr(idx + 1, 0)], opt, i,
                           in.wantIndex, idx + 1)

\* long_required_argument that takes the following element without
\* comparing its index with argc
long_required_argument_past(in, idx, m, s, opt, i, off) ==
  LET short_idx == getopt_char_to_mask_index(opt.val)
      arg == Argv(in.argv, idx)
      e == off + Len(opt.name)
  IN IF short_idx >= 0 /\ short_idx \notin m.amask
     THEN [ret |-> long_err(m.colon), s |-> s]
     ELSE IF At(arg, e) = "="
     THEN IF At(arg, e) = NUL
          THEN [ret |-> long_err(m.colon), s |-> s]
          ELSE long_commit([s EXCEPT !.optarg = Ptr(idx, e + 1)], opt, i,
                           in.wantIndex, idx + 1)
     ELSE long_commit([s EXCEPT !.optarg = Ptr(idx + 1, 0)], opt, i,
                      in.wantIndex, idx + 2)

\* case required_argument
long_required_argument(in, idx, m, s, opt, i, off) ==
  LET short_idx == getopt_char_to_mask_index(opt.val)
      arg == Argv(in.argv, idx)
      e == off + Len(opt.name)
  IN IF short_idx >= 0 /\ short_idx \notin m.amask
     THEN [ret |-> long_err(m.colon), s |-> s]
     ELSE IF At(arg, e) = "="
     THEN IF At(arg, e) = NUL
          THEN [ret |-> long_err(m.colon), s |-> s]
          ELSE long_commit([s EXCEPT !.optarg = Ptr(idx, e + 1)], opt, i,
                           in.wantIndex, idx + 1)
     ELSE IF idx + 1 >= Len(in.argv)
          THEN [ret |-> long_err(m.colon), s |-> s]
          ELSE long_commit([s EXCEPT !.optarg = Ptr(idx + 1, 0)], opt, i,
                           in.wantIndex, idx + 2)

\* long_optional_argument that takes a following element as the argument
\* when the element holds no '='
long_optional_argument_next(in, idx, m, s, opt, i, off) ==
  LET short_idx == getopt_char_to_mask_index(opt.val)
      arg == Argv(in.argv, idx)
      e == off + Len(opt.name)
      sep == At(arg, e) # "=" /\ idx + 1 < Len(in.argv)
      s1 == IF At(arg, e) = "=" /\ At(arg, e) # NUL
            THEN [s EXCEPT !.optarg = Ptr(idx, e + 1)]
            ELSE IF sep THEN [s EXCEPT !.optarg = Ptr(idx + 1, 0)]
            ELSE s
  IN IF At(arg, e) = "=" /\ At(arg, e) = NUL
     THEN [ret |-> long_err(m.colon), s |-> s]
     ELSE IF short_idx >= 0 /\ short_idx \notin m.amask
     THEN [ret |-> long_err(m.colon), s |-> s1]
     ELSE long_commit(s1, opt, i, in.wantIndex, IF sep THEN idx + 2 ELSE idx + 1)

\* case optional_argument
long_optional_argument(in, idx, m, s, opt, i, off) ==
  LET short_idx == getopt_char_to_mask_index(opt.val)
      arg == Argv(in.argv, idx)
      e == off + Len(opt.name)
      s1 == IF At(arg, e) = "=" /\ At(arg, e) # NUL
            THEN [s EXCEPT !.optarg = Ptr(idx, e + 1)]
            ELSE s
  IN IF At(arg, e) = "=" /\ At(arg, e) = NUL
     THEN [ret |-> long_err(m.colon), s |-> s]
     ELSE IF short_idx >= 0 /\ short_idx \notin m.amask
     THEN [ret |-> long_err(m.colon), s |-> s1]
     ELSE long_commit(s1, opt, i, in.wantIndex, idx + 1)

\* the for loop over the table, at entry i; past the last entry stands the
\* all-zero sentinel
RECURSIVE long_loop(_, _, _, _, _, _)
long_loop(in, idx, m, s, off, i) ==
  IF i >= Len(in.longopts.ents)
  THEN [ret |-> EOF, s |-> s]
  ELSE LET opt == in.longopts.ents[i + 1]
       IN IF ~strncmp_eq(Argv(in.argv, idx), off, opt.name)
          THEN long_loop(in, idx, m, s, off, i + 1)
          ELSE IF opt.has_arg = "no_argument"
          THEN long_no_argument(in, idx, m, s, opt, i)
          ELSE IF opt.has_arg = "required_argument"
          THEN long_required_argument(in, idx, m, s, opt, i, off)
          ELSE IF opt.has_arg = "optional_argument"
          THEN long_optional_argument(in, idx, m, s, opt, i, off)
          ELSE [ret |-> IF in.longonly THEN EOF ELSE "?", s |-> s]

\* what reading longopts[0] through a null longopts can do: the access
\* faults, or the bytes found there read as the sentinel, or as an entry
\* of no known kind
DerefOutcomes == {"fault", "sentinel", "unknown_kind"}

long_null_table(in, s, deref) ==
  IF deref = "fault" THEN [ret |-> FAULT, s |-> s]
  ELSE IF deref = "sentinel" THEN [ret |-> EOF, s |-> s]
  ELSE [ret |-> IF in.longonly THEN EOF ELSE "?", s |-> s]

getopt_match_longopt(in, idx, m, s, deref) ==
  LET off == long_skip(Argv(in.argv, idx), in.longonly)
  IN IF off < 0 THEN [ret |-> EOF, s |-> s]
     ELSE IF in.longopts.null THEN long_null_table(in, s, deref)
     ELSE long_loop(in, idx, m, s, off, 0)

\* ------------------------------------------------------------------------
\* zephyr_getopt
\* ------------------------------------------------------------------------

\* the value of OPTERR_INITIALIZER, as the two halves of union opterr_state
OPTERR_INITIALIZER == [optind_prev |-> 1, nextchar_idx |-> 0]

\* reset_optind that leaves *opterr as it is
reset_optind_keep(s) ==
  IF s.optind < 1 THEN [s EXCEPT !.optind = 1] ELSE s

\* if (*optind < 1) { *optind = 1; *opterr = OPTERR_INITIALIZER; }
reset_optind(s) ==
  IF s.optind < 1
  THEN [s EXCEPT !.optind = 1,
                 !.optind_prev = OPTERR_INITIALIZER.optind_prev,
                 !.nextchar_idx = OPTERR_INITIALIZER.nextchar_idx]
  ELSE s

\* reset_state that notes the new optind and leaves the cursor where it is
reset_state_cursor(s) ==
  IF s.optind # s.optind_prev
  THEN [s EXCEPT !.optind_prev = s.optind % U16]
  ELSE s

\* if (*optind != st->optind_prev) { nextchar_idx = 1; optind_prev = optind; }
reset_state(s) ==
  IF s.optind # s.optind_prev
  THEN [s EXCEPT !.nextchar_idx = 1, !.optind_prev = s.optind % U16]
  ELSE s

\* not_an_option with the test for a lone dash left out
not_an_option_dash(arg) == At(arg, 0) # "-"

\* (arg[0] != '-') || (arg[1] == '\0')
not_an_option(arg) == At(arg, 0) # "-" \/ At(arg, 1) = NUL

\* end_of_options_marker with the test of the terminator inverted
end_of_options_marker_long(arg) ==
  At(arg, 0) = "-" /\ At(arg, 1) = "-" /\ At(arg, 2) # NUL

\* (arg[0] == '-') && (arg[1] == '-') && (arg[2] == '\0')
end_of_options_marker(arg) ==
  At(arg, 0) = "-" /\ At(arg, 1) = "-" /\ At(arg, 2) = NUL

\* the reset of nextchar_idx to 1 when it lies outside [1, strlen(arg))
clamp_nextchar(s, arg) ==
  IF s.nextchar_idx < 1 \/ s.nextchar_idx >= Len(arg)
  THEN [s EXCEPT !.nextchar_idx = 1]
  ELSE s

Out(ret, s, path, i, j) == [ret |-> ret, s |-> s, path |-> path, i |-> i, j |-> j]

\* short_unknown that steps over the failing element
short_unknown_adv(s, arg, i) ==
  LET j == s.nextchar_idx
  IN Out("?", [s EXCEPT !.optopt = At(arg, j), !.optind = i + 1], "unknown", i, j)

\* body of the inner loop for an unknown option character
short_unknown(s, arg, i) ==
  LET j == s.nextchar_idx
  IN Out("?", [s EXCEPT !.optopt = At(arg, j), !.optind = i], "unknown", i, j)

\* short_with_arg whose inline argument starts at the option character
short_with_arg_off(in, m, s, arg, i) ==
  LET j == s.nextchar_idx
      s1 == [s EXCEPT !.optopt = At(arg, j)]
  IN IF At(arg, j + 1) # NUL
     THEN Out(At(arg, j), [s1 EXCEPT !.optarg = Ptr(i, j), !.optind = i + 1],
              "inline", i, j)
     ELSE IF i + 1 < Len(in.argv)
     THEN Out(At(arg, j), [s1 EXCEPT !.optarg = Ptr(i + 1, 0), !.optind = i + 2],
              "separate", i, j)
     ELSE Out(IF m.colon THEN ":" ELSE "?", [s1 EXCEPT !.optind = i],
              "missing", i, j)

\* short_with_arg that reports a missing argument as '?' whatever the optstring
short_with_arg_nocolon(in, m, s, arg, i) ==
  LET j == s.nextchar_idx
      s1 == [s EXCEPT !.optopt = At(arg, j)]
  IN IF At(arg, j + 1) # NUL
     THEN Out(At(arg, j), [s1 EXCEPT !.optarg = Ptr(i, j + 1), !.optind = i + 1],
              "inline", i, j)
     ELSE IF i + 1 < Len(in.argv)
     THEN Out(At(arg, j), [s1 EXCEPT !.optarg = Ptr(i + 1, 0), !.optind = i + 2],
              "separate", i, j)
     ELSE Out("?", [s1 EXCEPT !.optind = i], "missing", i, j)

\* short_with_arg that does not take a next element that begins with a dash
short_with_arg_peek(in, m, s, arg, i) ==
  LET j == s.nextchar_idx
      s1 == [s EXCEPT !.optopt = At(arg, j)]
  IN IF At(arg, j + 1) # NUL
     THEN Out(At(arg, j), [s1 EXCEPT !.optarg = Ptr(i, j + 1), !.optind = i + 1],
              "inline", i, j)
     ELSE IF i + 1 < Len(in.argv) /\ At(Argv(in.argv, i + 1), 0) # "-"
     THEN Out(At(arg, j), [s1 EXCEPT !.optarg = Ptr(i + 1, 0), !.optind = i + 2],
              "separate", i, j)
     ELSE Out(IF m.colon THEN ":" ELSE "?", [s1 EXCEPT !.optind = i],
              "missing", i, j)

\* body of the inner loop for a known option that requires an argument
short_with_arg(in, m, s, arg, i) ==
  LET j == s.nextchar_idx
      s1 == [s EXCEPT !.optopt = At(arg, j)]
  IN IF At(arg, j + 1) # NUL
     THEN Out(At(arg, j), [s1 EXCEPT !.optarg = Ptr(i, j + 1), !.optind = i + 1],
              "inline", i, j)
     ELSE IF i + 1 < Len(in.argv)
     THEN Out(At(arg, j), [s1 EXCEPT !.optarg = Ptr(i + 1, 0), !.optind = i + 2],
              "separate", i, j)
     ELSE Out(IF m.colon THEN ":" ELSE "?", [s1 EXCEPT !.optind = i],
              "missing", i, j)

\* short_no_arg that steps to the next element after every option
short_no_arg_next(s, arg, i) ==
  LET j == s.nextchar_idx
      s1 == [s EXCEPT !.optopt = At(arg, j), !.optarg = NullPtr]
  IN IF At(arg, j + 1) = NUL
     THEN Out(At(arg, j), [s1 EXCEPT !.optind = i + 1, !.nextchar_idx = 0],
              "last_noarg", i, j)
     ELSE Out(At(arg, j),
              [s1 EXCEPT !.optind = i + 1, !.nextchar_idx = (j + 1) % U16],
              "cluster", i, j)

\* short_no_arg that does not move the cursor inside a cluster
short_no_arg_stuck(s, arg, i) ==
  LET j == s.nextchar_idx
      s1 == [s EXCEPT !.optopt = At(arg, j), !.optarg = NullPtr]
  IN IF At(arg, j + 1) = NUL
     THEN Out(At(arg, j), [s1 EXCEPT !.optind = i + 1, !.nextchar_idx = 0],
              "last_noarg", i, j)
     ELSE Out(At(arg, j), [s1 EXCEPT !.optind = i], "cluster", i, j)

\* body of the inner loop for a known option that takes no argument
short_no_arg(s, arg, i) ==
  LET j == s.nextchar_idx
      s1 == [s EXCEPT !.optopt = At(arg, j), !.optarg = NullPtr]
  IN IF At(arg, j + 1) = NUL
     THEN Out(At(arg, j), [s1 EXCEPT !.optind = i + 1, !.nextchar_idx = 0],
              "last_noarg", i, j)
     ELSE Out(At(arg, j),
              [s1 EXCEPT !.optind = i, !.nextchar_idx = (j + 1) % U16],
              "cluster", i, j)

\* first round of the inner loop, entered with arg[nextchar_idx] != '\0'
short_option(in, m, s, arg, i) ==
  LET idx == getopt_char_to_mask_index(At(arg, s.nextchar_idx))
  IN IF idx < 0 \/ idx \notin m.omask THEN short_unknown(s, arg, i)
     ELSE IF idx \in m.amask THEN short_with_arg(in, m, s, arg, i)
     ELSE short_no_arg(s, arg, i)

\* values an int that was never assigned can hold at the return
JunkRets == {EOF, NUL, "?"}

\* what the outer loop body does with the value r that
\* getopt_match_longopt returned: brk says whether the loop is left, and the
\* stores to *optopt are applied
long_result(r) ==
  IF r.ret = FAULT THEN [brk |-> TRUE, ret |-> FAULT, s |-> r.s]
  ELSE IF r.ret = NUL
  THEN [brk |-> TRUE, ret |-> NUL, s |-> [r.s EXCEPT !.optopt = NUL]]
  ELSE IF r.ret = "?" \/ r.ret = ":"
  THEN [brk |-> TRUE, ret |-> r.ret, s |-> r.s]
  ELSE IF r.ret = EOF
  THEN [brk |-> FALSE, ret |-> EOF, s |-> r.s]
  ELSE [brk |-> TRUE, ret |-> r.ret, s |-> [r.s EXCEPT !.optopt = r.ret]]

\* the long option step of the outer loop body
long_step(in, m, s, i, cfgLong, deref) ==
  IF ~cfgLong THEN [brk |-> FALSE, ret |-> EOF, s |-> s]
  ELSE The({ long_result(r) : r \in { getopt_match_longopt(in, i, m, s, deref) } })

\* the outer loop from element i on
RECURSIVE scan_loop(_, _, _, _, _, _, _)
scan_loop(in, m, s, i, cfgLong, deref, junk) ==
  IF i >= Len(in.argv)
  THEN Out(junk, s, "fell_out", -1, -1)
  ELSE LET arg == Argv(in.argv, i)
       IN IF not_an_option(arg) THEN Out(EOF, s, "operand", i, -1)
          ELSE IF end_of_options_marker(arg)
          THEN Out(EOF, [s EXCEPT !.optind = i + 1], "marker", i, -1)
          ELSE The({ IF l.brk
                     THEN Out(l.ret, l.s,
                              IF l.ret = FAULT THEN "fault"
                              ELSE IF l.ret = "?" \/ l.ret = ":" THEN "long_err"
                              ELSE "long",
                              i, -1)
                     ELSE The({ IF At(arg, s1.nextchar_idx) = NUL
                                THEN scan_loop(in, m, s1, i + 1, cfgLong, deref, junk)
                                ELSE short_option(in, m, s1, arg, i)
                                : s1 \in { clamp_nextchar(l.s, arg) } })
                     : l \in { long_step(in, m, s, i, cfgLong, deref) } })

\* done: st->optind_prev = (uint16_t)*optind
done(s) == [s EXCEPT !.optind_prev = s.optind % U16]

\* zephyr_getopt that clears optarg on entry, as glibc's getopt does
zephyr_getopt_clear(in, s, cfgLong, deref, junk) ==
  The({ IF s2.optind >= Len(in.argv)
        THEN Out(EOF, s2, "no_more", -1, -1)
        ELSE The({ IF r.ret = FAULT THEN r ELSE [r EXCEPT !.s = done(r.s)]
                   : r \in { scan_loop(in, m, s2, s2.optind, cfgLong, deref, junk) } })
        : s2 \in { reset_state(reset_optind([s EXCEPT !.optarg = NullPtr])) },
          m \in { getopt_parse_optstring(in.optstring) } })

\* One call of the engine on the inputs in and the state s, in a build with
\* CONFIG_ZEPHYR_GETOPT_LONG = cfgLong.  The result holds the returned
\* value, the state left behind, the exit taken and the element and
\* character position examined.
zephyr_getopt(in, s, cfgLong, deref, junk) ==
  The({ IF s2.optind >= Len(in.argv)
        THEN Out(EOF, s2, "no_more", -1, -1)
        ELSE The({ IF r.ret = FAULT THEN r ELSE [r EXCEPT !.s = done(r.s)]
                   : r \in { scan_loop(in, m, s2, s2.optind, cfgLong, deref, junk) } })
        : s2 \in { reset_state(reset_optind(s)) },
          m \in { getopt_parse_optstring(in.optstring) } })

\* ------------------------------------------------------------------------
\* getopt_r of getopt_r.c, the implementation without long options
\* ------------------------------------------------------------------------

\* the outer loop of getopt_r from element i on; ret starts as -1, which is
\* what the function returns when the loop ends or is left by break
RECURSIVE getopt_r_loop(_, _, _, _)
getopt_r_loop(in, m, s, i) ==
  IF i >= Len(in.argv)
  THEN Out(EOF, s, "no_more", -1, -1)
  ELSE LET arg == Argv(in.argv, i)
       IN IF not_an_option(arg) THEN Out(EOF, s, "operand", i, -1)
          ELSE IF end_of_options_marker(arg)
          THEN Out(EOF, [s EXCEPT !.optind = i + 1], "marker", i, -1)
          ELSE The({ IF At(arg, s1.nextchar_idx) = NUL
                     THEN getopt_r_loop(in, m, s1, i + 1)
                     ELSE short_option(in, m, s1, arg, i)
                     : s1 \in { clamp_nextchar(s, arg) } })

\* getopt_r(argc, argv, optstring, optarg, opterr, optind, optopt) of
\* getopt_r.c on the quadruple s
getopt_r_c(in, s) ==
  The({ [r EXCEPT !.s = done(r.s)]
        : r \in { getopt_r_loop(in, getopt_parse_optstring(in.optstring), s2,
                                s2.optind) : s2 \in { reset_state(reset_optind(s)) } } })

\* ------------------------------------------------------------------------
\* union opterr_state: the int opterr and the two uint16_t fields share
\* four bytes
\* ------------------------------------------------------------------------

\* the four bytes of the int v in memory; the int is kept in two's
\* complement, in one of the two byte orders a build can have
bytes_of_int(v, order) ==
  LET b == << v % 256, (v \div 256) % 256, (v \div U16) % 256,
              (v \div (256 * U16)) % 256 >>
  IN IF order = "little" THEN b ELSE << b[4], b[3], b[2], b[1] >>

\* the int of four bytes in memory; a most significant byte of 128 or more
\* gives a negative int
int_of_bytes(b, order) ==
  LET l == IF order = "little" THEN b ELSE << b[4], b[3], b[2], b[1] >>
  IN l[1] + 256 * l[2] + U16 * l[3]
     + 256 * U16 * (IF l[4] >= 128 THEN l[4] - 256 ELSE l[4])

\* field_offset that puts nextchar_idx one byte after the start of
\* optind_prev
field_offset_packed(field) == IF field = "optind_prev" THEN 0 ELSE 1

\* offsetof(union opterr_state, field)
field_offset(field) == IF field = "optind_prev" THEN 0 ELSE 2

\* the four bytes b after the store of the uint16_t v to field
store_field(b, field, v, order) ==
  LET lo == v % 256
      hi == v \div 256
      at == field_offset(field)
  IN [ n \in 1..4 |->
         IF n = at + 1 THEN (IF order = "little" THEN lo ELSE hi)
         ELSE IF n = at + 2 THEN (IF order = "little" THEN hi ELSE lo)
         ELSE b[n] ]

\* the uint16_t read from field of the four bytes b
load_field(b, field, order) ==
  LET b1 == b[field_offset(field) + 1]
      b2 == b[field_offset(field) + 2]
  IN IF order = "little" THEN b1 + 256 * b2 ELSE 256 * b1 + b2

\* the value of .opterr after the two fields were stored
opterr_of(oe, order) ==
  int_of_bytes(store_field(store_field(<< 0, 0, 0, 0 >>, "optind_prev",
                                       oe.optind_prev, order),
                           "nextchar_idx", oe.nextchar_idx, order),
               order)

\* the two fields read through (union opterr_state *)opterr
state_of(opterr, order) ==
  [optind_prev |-> load_field(bytes_of_int(opterr, order), "optind_prev", order),
   nextchar_idx |-> load_field(bytes_of_int(opterr, order), "nextchar_idx", order)]

\* ------------------------------------------------------------------------
\* Callers: each owns one state quadruple and one set of inputs
\* ------------------------------------------------------------------------

VARIABLES
  cfgLong,   \* CONFIG_ZEPHYR_GETOPT_LONG of the build
  in,        \* per quadruple: argv, optstring, longopts, longindex wanted, longonly
  st0,       \* per quadruple: the state its caller created it with
  st,        \* per quadruple: optind, the halves of opterr, optopt, optarg,
             \* and the caller's longindex and flag variables
  hist,      \* per quadruple: returned value, optind and exit of each call so far
  sets,      \* per quadruple: number of caller writes to optind so far
  cap,       \* per quadruple: how many calls and writes its caller makes at most
  last       \* the last operation: kind, quadruple, state before, result

vars == << cfgLong, in, st0, st, hist, sets, cap, last >>

\* the caller's flag variables that long option entries may point to
FlagIds == {"F1"}

Quadruple(oi, oe) ==
  [optind |-> oi, optind_prev |-> oe.optind_prev,
   nextchar_idx |-> oe.nextchar_idx, optopt |-> NUL, optarg |-> NullPtr,
   longindex |-> -1, flags |-> [f \in FlagIds |-> NUL]]

ZeroOpterr == [optind_prev |-> 0, nextchar_idx |-> 0]

\* state of a caller that has not called yet: zeroed globals as in the
\* wrappers' __weak definitions, or the same with optind = 1 as the tests
\* set it
FreshStates ==
  { Quadruple(0, ZeroOpterr), Quadruple(1, ZeroOpterr) }

\* the fresh state of the tests: optind = 1 over zeroed globals
TestFresh == Quadruple(1, ZeroOpterr)

NoOut == Out(NUL, TestFresh, "none", -1, -1)

CMD == << "c" >>

\* every argv of at most n elements after argv[0], drawn from pool
Argvs(pool, n) ==
  UNION { { << CMD >> \o t : t \in [1..len -> pool] } : len \in 0..n }

NullTable == [null |-> TRUE, ents |-> << >>]

Table(ents) == [null |-> FALSE, ents |-> ents]

\* elements of sessions that use short options only
ShortPool ==
  { << "-", "a", "b", "a" >>, << "-", "o" >>, << "-", "o", "V" >>,
    << "-", "a", "o", "V" >>, << "-", "-" >>, << "-" >>, << "V" >> }

\* "abo:" and ":ao:"
ShortOptstrings ==
  { << "a", "b", "o", ":" >>, << ":", "a", "o", ":" >> }

ShortInputs ==
  [argv : Argvs(ShortPool, MaxArgs), optstring : ShortOptstrings,
   longopts : {NullTable}, wantIndex : {FALSE}, longonly : {FALSE}]

InitWith(Q, ins, fresh, cfgs, caps) ==
  /\ cfgLong \in cfgs
  /\ in \in ins
  /\ st0 \in [Q -> fresh]
  /\ st = st0
  /\ hist = [k \in Q |-> << >>]
  /\ sets = [k \in Q |-> 0]
  /\ cap = caps
  /\ last = [op |-> "init", k |-> 0, pre |-> NoOut.s, out |-> NoOut,
             reset |-> FALSE, u |-> << "fault", EOF >>]

Init ==
  InitWith({1}, [{1} -> ShortInputs], FreshStates, BOOLEAN,
           [k \in {1} |-> [calls |-> MaxCalls, sets |-> MaxSets]])

Faulted == last.out.ret = FAULT

\* the undefined outcomes a call on quadruple k can meet: a probe run tells
\* whether the call reaches the access through a null longopts at all
Undefined(k) ==
  The({ IF path = "fault" THEN DerefOutcomes \X JunkRets
        ELSE IF path = "fell_out" THEN {"fault"} \X JunkRets
        ELSE { << "fault", EOF >> }
        : path \in { zephyr_getopt(in[k], st[k], cfgLong, "fault", EOF).path } })

HistEntry(r) == [ret |-> r.ret, optind |-> r.s.optind, path |-> r.path]

\* Call on an engine that keeps its scan cursor in one static variable, as
\* the classic getopt does: the cursor found is the one the last call left
Call_static(k) ==
  /\ ~Faulted
  /\ Len(hist[k]) < cap[k].calls
  /\ \E u \in Undefined(k) :
       \E r \in { zephyr_getopt(in[k],
                                 IF last.op = "call"
                                 THEN [st[k] EXCEPT !.nextchar_idx = last.out.s.nextchar_idx]
                                 ELSE st[k],
                                 cfgLong, u[1], u[2]) } :
          /\ st' = [st EXCEPT ![k] = r.s]
          /\ hist' = [hist EXCEPT ![k] = Append(@, HistEntry(r))]
          /\ last' = [op |-> "call", k |-> k, pre |-> st[k], out |-> r,
                      reset |-> last.op = "set" /\ last.k = k, u |-> u]
  /\ UNCHANGED << cfgLong, in, st0, sets, cap >>

\* the caller of quadruple k calls the engine once
Call(k) ==
  /\ ~Faulted
  /\ Len(hist[k]) < cap[k].calls
  /\ \E u \in Undefined(k) :
       \E r \in { zephyr_getopt(in[k], st[k], cfgLong, u[1], u[2]) } :
          /\ st' = [st EXCEPT ![k] = r.s]
          /\ hist' = [hist EXCEPT ![k] = Append(@, HistEntry(r))]
          /\ last' = [op |-> "call", k |-> k, pre |-> st[k], out |-> r,
                      reset |-> last.op = "set" /\ last.k = k, u |-> u]
  /\ UNCHANGED << cfgLong, in, st0, sets, cap >>

\* the caller of quadruple k writes v to optind between calls
SetOptind(k, v) ==
  /\ ~Faulted
  /\ sets[k] < cap[k].sets
  /\ v <= Len(in[k].argv)
  /\ st' = [st EXCEPT ![k].optind = v]
  /\ sets' = [sets EXCEPT ![k] = @ + 1]
  /\ last' = [op |-> "set", k |-> k, pre |-> st[k], out |-> NoOut,
              reset |-> FALSE, u |-> << "fault", EOF >>]
  /\ UNCHANGED << cfgLong, in, st0, hist, cap >>

\* what callers write to optind: 0 or 1 to start over, 2 to move on or back
SetValues == {0, 1, 2}

Next ==
  \/ \E k \in DOMAIN st : Call(k)
  \/ \E k \in DOMAIN st : \E v \in SetValues : SetOptind(k, v)

Spec == Init /\ [][Next]_vars

\* ------------------------------------------------------------------------
\* Short option sessions whose argv holds elements that start with "--"
\* ------------------------------------------------------------------------

NullPool ==
  { << "-", "-", "a" >>, << "-", "a" >>, << "V" >> }

NullInputs ==
  [argv : Argvs(NullPool, MaxArgs), optstring : { << "a" >> },
   longopts : {NullTable}, wantIndex : {FALSE}, longonly : {FALSE}]

InitNull ==
  InitWith({1}, [{1} -> NullInputs], FreshStates, BOOLEAN,
           [k \in {1} |-> [calls |-> MaxCalls, sets |-> MaxSets]])

SpecNull == InitNull /\ [][Next]_vars

\* ------------------------------------------------------------------------
\* Sessions with a long option table
\* ------------------------------------------------------------------------

\* --file, --file=V, --file=, --filex, --fi, -file, --verb, -vv, V
LongPool ==
  { << "-", "-", "f", "i", "l", "e" >>,
    << "-", "-", "f", "i", "l", "e", "=", "V" >>,
    << "-", "-", "f", "i", "l", "e", "=" >>,
    << "-", "-", "f", "i", "l", "e", "x" >>,
    << "-", "-", "f", "i" >>,
    << "-", "f", "i", "l", "e" >>,
    << "-", "-", "v", "e", "r", "b" >>,
    << "-", "v", "v" >>,
    << "V" >> }

Entry(name, has_arg, flag, val) ==
  [name |-> name, has_arg |-> has_arg, flag |-> flag, val |-> val]

HasArgKinds == {"no_argument", "required_argument", "optional_argument"}

\* {"file", no_argument, NULL, 'f'}, {"file", no_argument, NULL, 'v'},
\* {0, 0, 0, 0}: a name that stands twice in the table
TwiceTable ==
  Table(<< Entry(<< "f", "i", "l", "e" >>, "no_argument", "NULL", "f"),
           Entry(<< "f", "i", "l", "e" >>, "no_argument", "NULL", "v") >>)

\* {"file", kind, NULL, 'f'}, {"verb", no_argument, flag, 'v'}, {0, 0, 0, 0}
\* with flag NULL or &F1, and the table above
LongTables ==
  { Table(<< Entry(<< "f", "i", "l", "e" >>, kind, "NULL", "f"),
             Entry(<< "v", "e", "r", "b" >>, "no_argument", flag, "v") >>) :
    kind \in HasArgKinds, flag \in {"NULL", "F1"} }
  \cup { TwiceTable }

LongOptstrings == { << "f", ":" >>, << ":", "f", ":", "v" >>, << "f", "v" >> }

LongInputs ==
  [argv : Argvs(LongPool, MaxArgsLong), optstring : LongOptstrings,
   longopts : LongTables, wantIndex : BOOLEAN, longonly : BOOLEAN]

InitLong ==
  InitWith({1}, [{1} -> LongInputs], {TestFresh}, {TRUE},
           [k \in {1} |-> [calls |-> MaxCallsLong, sets |-> MaxSetsLong]])

SpecLong == InitLong /\ [][Next]_vars

\* the same sessions with callers that only call
NextCalls == \E k \in DOMAIN st : Call(k)

SpecLongCalls == InitLong /\ [][NextCalls]_vars

\* ------------------------------------------------------------------------
\* Two callers, each with its own quadruple, argv, optstring and table
\* ------------------------------------------------------------------------

RePool1 ==
  { << "-", "a", "b", "a" >>, << "-", "-", "f", "i", "l", "e", "=", "V" >> }

RePool2 ==
  { << "-", "b", "a" >>, << "-", "-", "v", "e", "r", "b" >> }

ReInputs1 ==
  [argv : Argvs(RePool1, MaxArgsRe),
   optstring : { << "a", "b", "f", ":" >> },
   longopts : { Table(<< Entry(<< "f", "i", "l", "e" >>, "required_argument", "NULL", "f") >>) },
   wantIndex : {TRUE}, longonly : {FALSE}]

ReInputs2 ==
  [argv : Argvs(RePool2, MaxArgsRe),
   optstring : { << "a", "b" >> },
   longopts : { Table(<< Entry(<< "v", "e", "r", "b" >>, "no_argument", "F1", "v") >>) },
   wantIndex : {FALSE}, longonly : {FALSE}]

\* the second caller only calls; the first also writes to its optind
InitRe ==
  InitWith({1, 2}, { << a, b >> : a \in ReInputs1, b \in ReInputs2 },
           {TestFresh}, {TRUE},
           << [calls |-> MaxCallsRe, sets |-> MaxSetsRe],
              [calls |-> MaxCallsRe, sets |-> 0] >>)

SpecRe == InitRe /\ [][Next]_vars

\* sessions over optstrings that repeat a character and over a cluster
\* that ends in an option with an inline argument
MixPool ==
  { << "-", "a" >>, << "-", "a", "b", "o", "V" >>, << "V" >> }

\* "aa:", "a:a" and "abo:"
MixOptstrings ==
  { << "a", "a", ":" >>, << "a", ":", "a" >>, << "a", "b", "o", ":" >> }

MixInputs ==
  [argv : Argvs(MixPool, MaxArgsMix), optstring : MixOptstrings,
   longopts : {NullTable}, wantIndex : {FALSE}, longonly : {FALSE}]

InitMix ==
  InitWith({1}, [{1} -> MixInputs], FreshStates, BOOLEAN,
           [k \in {1} |-> [calls |-> MaxCallsMix, sets |-> 0]])

SpecMix == InitMix /\ [][NextCalls]_vars

\* ------------------------------------------------------------------------
\* The wrappers: each maps the arguments a of its caller to the arguments
\* that zephyr_getopt receives, parameter by parameter
\* ------------------------------------------------------------------------

\* a null optstring
NullStr == "NULLSTR"

\* zephyr_getopt(argc, argv, optstring, NULL, NULL, false, &optarg, ...)
getopt(a) ==
  [argv |-> a.argv, optstring |-> a.optstring, longopts |-> NullTable,
   wantIndex |-> FALSE, longonly |-> FALSE]

\* zephyr_getopt(argc, argv, NULL, NULL, false, optstring, optarg, ...):
\* the parameter optstring receives NULL, longindex receives false and
\* longonly receives the caller's optstring converted to bool
getopt_r(a) ==
  [argv |-> a.argv, optstring |-> NullStr, longopts |-> NullTable,
   wantIndex |-> FALSE, longonly |-> a.optstring # NullStr]

\* zephyr_getopt(argc, argv, optstring, longopts, longindex, false, ...)
getopt_long(a) ==
  [argv |-> a.argv, optstring |-> a.optstring, longopts |-> a.longopts,
   wantIndex |-> a.wantIndex, longonly |-> FALSE]

getopt_long_r(a) ==
  [argv |-> a.argv, optstring |-> a.optstring, longopts |-> a.longopts,
   wantIndex |-> a.wantIndex, longonly |-> FALSE]

\* zephyr_getopt(argc, argv, optstring, longopts, longindex, true, ...)
getopt_long_only(a) ==
  [argv |-> a.argv, optstring |-> a.optstring, longopts |-> a.longopts,
   wantIndex |-> a.wantIndex, longonly |-> TRUE]

getopt_long_only_r(a) ==
  [argv |-> a.argv, optstring |-> a.optstring, longopts |-> a.longopts,
   wantIndex |-> a.wantIndex, longonly |-> TRUE]

Wrappers ==
  { "getopt", "getopt_r", "getopt_long", "getopt_long_r",
    "getopt_long_only", "getopt_long_only_r" }

\* the arguments wrapper w passes on
Passed(w, a) ==
  IF w = "getopt" THEN getopt(a)
  ELSE IF w = "getopt_r" THEN getopt_r(a)
  ELSE IF w = "getopt_long" THEN getopt_long(a)
  ELSE IF w = "getopt_long_r" THEN getopt_long_r(a)
  ELSE IF w = "getopt_long_only" THEN getopt_long_only(a)
  ELSE getopt_long_only_r(a)

\* what reading the optstring through a null pointer can do: the assertion
\* or the access stops the program, or the bytes found there read as an
\* empty string, or as some text
NullStrReads == { "fault", << >>, << "a" >> }

\* zephyr_getopt on arguments e whose optstring may be null
zephyr_getopt_args(e, s, cfg, deref, junk, rd) ==
  IF e.optstring = NullStr
  THEN IF rd = "fault" THEN Out(FAULT, s, "fault", -1, -1)
       ELSE zephyr_getopt([e EXCEPT !.optstring = rd], s, cfg, deref, junk)
  ELSE zephyr_getopt(e, s, cfg, deref, junk)

\* the caller of quadruple k calls the engine once through wrapper w
WrapCall(k, w) ==
  /\ ~Faulted
  /\ Len(hist[k]) < cap[k].calls
  /\ \E deref \in DerefOutcomes, junk \in JunkRets, rd \in NullStrReads :
       \E r \in { zephyr_getopt_args(Passed(w, in[k]), st[k], cfgLong,
                                     deref, junk, rd) } :
          /\ st' = [st EXCEPT ![k] = r.s]
          /\ hist' = [hist EXCEPT ![k] = Append(@, HistEntry(r))]
          /\ last' = [op |-> "call", k |-> k, pre |-> st[k], out |-> r,
                      reset |-> FALSE, u |-> << deref, junk >>, w |-> w]
  /\ UNCHANGED << cfgLong, in, st0, sets, cap >>

WrapPool ==
  { << "-", "a" >>, << "-", "-", "f", "i", "l", "e" >>,
    << "-", "f", "i", "l", "e" >>, << "V" >> }

WrapInputs ==
  [argv : Argvs(WrapPool, MaxArgsWrap), optstring : { << "a", "f" >> },
   longopts : { Table(<< [name |-> << "f", "i", "l", "e" >>,
                          has_arg |-> "no_argument", flag |-> "NULL",
                          val |-> "f"] >>) },
   wantIndex : BOOLEAN, longonly : {FALSE}]

InitWrap ==
  InitWith({1}, [{1} -> WrapInputs], {TestFresh}, BOOLEAN,
           [k \in {1} |-> [calls |-> MaxCallsWrap, sets |-> 0]])

NextWrap == \E k \in DOMAIN st : \E w \in Wrappers : WrapCall(k, w)

SpecWrap == InitWrap /\ [][NextWrap]_vars

\* ------------------------------------------------------------------------
\* A caller that loops until the engine returns -1, as in
\* while ((opt = getopt(argc, argv, optstring)) != -1) { ... }
\* ------------------------------------------------------------------------

\* one round of the loop of the caller of quadruple k; of the results only
\* the latest is kept, and of the number of rounds (loop_iter in the tests)
\* whether it is odd
CallLoop(k) ==
  /\ ~Faulted
  /\ IF hist[k] = << >> THEN TRUE ELSE hist[k][1].ret # EOF
  /\ \E u \in Undefined(k) :
       \E r \in { zephyr_getopt(in[k], st[k], cfgLong, u[1], u[2]) } :
          /\ st' = [st EXCEPT ![k] = r.s]
          /\ hist' = [hist EXCEPT ![k] = << HistEntry(r) >>]
          /\ last' = [op |-> "call", k |-> k, pre |-> st[k], out |-> r,
                      reset |-> FALSE, u |-> u,
                      odd |-> IF "odd" \in DOMAIN last THEN ~last.odd ELSE TRUE]
  /\ UNCHANGED << cfgLong, in, st0, sets, cap >>

NextLoop == \E k \in DOMAIN st : CallLoop(k)

\* the loop is not abandoned while its condition holds
SpecLoop == Init /\ [][NextLoop]_vars /\ WF_vars(NextLoop)

\* ------------------------------------------------------------------------
\* One long option and the short option of its value character
\* ------------------------------------------------------------------------

\* argv of --file, --file=V and V; the table {"file", kind, flag, 'f'},
\* {0, 0, 0, 0} with flag NULL or &F1; the optstrings "f", "f:", ":f:" and
\* "v", which does not hold 'f'
InitCross ==
  InitWith({1},
           [{1} -> [argv : Argvs({ << "-", "-", "f", "i", "l", "e" >>,
                                   << "-", "-", "f", "i", "l", "e", "=", "V" >>,
                                   << "V" >> }, MaxArgsCross),
                    optstring : { << "f" >>, << "f", ":" >>,
                                  << ":", "f", ":" >>, << "v" >> },
                    longopts : { Table(<< Entry(<< "f", "i", "l", "e" >>,
                                                kind, flag, "f") >>) :
                                 kind \in HasArgKinds, flag \in {"NULL", "F1"} },
                    wantIndex : BOOLEAN, longonly : {FALSE}]],
           {TestFresh}, {TRUE},
           [k \in {1} |-> [calls |-> MaxCallsCross, sets |-> 0]])

SpecCross == InitCross /\ [][NextCalls]_vars

\* ------------------------------------------------------------------------
\* getopt_parse_optstring on its own
\* ------------------------------------------------------------------------

\* every string of at most n characters of alphabet
Strings(alphabet, n) == UNION { [1..len -> alphabet] : len \in 0..n }

\* optstrings of a lower case letter, an upper case letter, a digit, the
\* colon and a character that is none of these
InitParse ==
  InitWith({1},
           [{1} -> [argv : { << CMD >> },
                    optstring : Strings({"a", "Z", "9", ":", "#"}, MaxOptLen),
                    longopts : {NullTable}, wantIndex : {FALSE},
                    longonly : {FALSE}]],
           {TestFresh}, {FALSE},
           [k \in {1} |-> [calls |-> 1, sets |-> 0]])

\* the optstring of quadruple k is parsed, as at the start of every call
Parse(k) ==
  /\ last.op = "init"
  /\ last' = [op |-> "parse", k |-> k, pre |-> st[k], out |-> NoOut,
              reset |-> FALSE, u |-> << "fault", EOF >>,
              masks |-> getopt_parse_optstring(in[k].optstring)]
  /\ UNCHANGED << cfgLong, in, st0, st, hist, sets, cap >>

NextParse == \E k \in DOMAIN st : Parse(k)

SpecParse == InitParse /\ [][NextParse]_vars

\* ------------------------------------------------------------------------
\* The int opterr as the store of optind_prev and nextchar_idx
\* ------------------------------------------------------------------------

\* values of a uint16_t: the ends of its range and the values around the
\* byte and sign boundaries
Samples16 == {0, 1, 2, 255, 256, 257, 32767, 32768, 65534, 65535}

InitCodec ==
  /\ cfgLong = FALSE
  /\ in \in [{1} -> { The(ShortInputs) }]
  /\ st0 \in [{1} -> { Quadruple(1, [optind_prev |-> p, nextchar_idx |-> c]) :
                       p \in Samples16, c \in Samples16 }]
  /\ st = st0
  /\ hist = [k \in {1} |-> << >>]
  /\ sets = [k \in {1} |-> 0]
  /\ cap = [k \in {1} |-> [calls |-> 0, sets |-> 0]]
  /\ \E order \in {"little", "big"} :
       last = [op |-> "init", k |-> 0, pre |-> NoOut.s, out |-> NoOut,
               reset |-> FALSE, u |-> << "fault", EOF >>,
               order |-> order, opterr |-> 0, field |-> "none", v |-> 0]

\* the two fields of quadruple k are stored and opterr is read as an int
Encode(k) ==
  /\ last.op = "init"
  /\ last' = [last EXCEPT !.op = "encode", !.k = k,
                          !.opterr = opterr_of(st[k], last.order)]
  /\ UNCHANGED << cfgLong, in, st0, st, hist, sets, cap >>

\* one of the fields is written through the union
StoreField(k, field, v) ==
  /\ last.op = "encode"
  /\ last' = [last EXCEPT
                !.op = "store", !.field = field, !.v = v,
                !.opterr = int_of_bytes(store_field(bytes_of_int(@, last.order),
                                                    field, v, last.order),
                                        last.order)]
  /\ UNCHANGED << cfgLong, in, st0, st, hist, sets, cap >>

\* the fields are read back from the int
Decode(k) ==
  /\ last.op \in {"encode", "store"}
  /\ last' = [last EXCEPT !.op = "decode"]
  /\ st' = [st EXCEPT ![k] = [@ EXCEPT
               !.optind_prev = state_of(last.opterr, last.order).optind_prev,
               !.nextchar_idx = state_of(last.opterr, last.order).nextchar_idx]]
  /\ UNCHANGED << cfgLong, in, st0, hist, sets, cap >>

NextCodec ==
  \/ \E k \in DOMAIN st : Encode(k)
  \/ \E k \in DOMAIN st : \E field \in {"optind_prev", "nextchar_idx"} :
       \E v \in Samples16 : StoreField(k, field, v)
  \/ \E k \in DOMAIN st : Decode(k)

SpecCodec == InitCodec /\ [][NextCodec]_vars

\* ------------------------------------------------------------------------
\* A caller that parses the end of an argv of more than 65536 elements
\* ------------------------------------------------------------------------

\* the argv of U16 + 2 elements that ends with the three elements of t, at
\* the indices U16 - 1, U16 and U16 + 1, after operands
FarArgv(t) ==
  [ n \in 1..(U16 + 2) |-> IF n < U16 THEN << "V" >> ELSE t[n - (U16 - 1)] ]

\* of argv the state holds the last three elements only, each of -ab, -a
\* and V; the caller has set optind to the first of these elements or the
\* next, over zeroed globals
InitFar ==
  InitWith({1},
           [{1} -> [argv : [1..3 -> { << "-", "a", "b" >>, << "-", "a" >>,
                                      << "V" >> }],
                    optstring : { << "a", "b" >> },
                    longopts : {NullTable}, wantIndex : {FALSE},
                    longonly : {FALSE}]],
           { Quadruple(U16 - 1, ZeroOpterr), Quadruple(U16, ZeroOpterr) },
           {FALSE},
           [k \in {1} |-> [calls |-> MaxCallsFar, sets |-> 0]])

\* the caller of quadruple k calls the engine once, in a build without
\* long options, on the whole argv
CallFar(k) ==
  /\ Len(hist[k]) < cap[k].calls
  /\ \E r \in { zephyr_getopt([in[k] EXCEPT !.argv = FarArgv(@)], st[k],
                              cfgLong, "fault", EOF) } :
       /\ st' = [st EXCEPT ![k] = r.s]
       /\ hist' = [hist EXCEPT ![k] = Append(@, HistEntry(r))]
       /\ last' = [op |-> "call", k |-> k, pre |-> st[k], out |-> r,
                   reset |-> FALSE, u |-> << "fault", EOF >>]
  /\ UNCHANGED << cfgLong, in, st0, sets, cap >>

NextFar == \E k \in DOMAIN st : CallFar(k)

SpecFar == InitFar /\ [][NextFar]_vars

\* ------------------------------------------------------------------------
\* A caller whose argv[1] is a cluster of more than 65536 characters
\* ------------------------------------------------------------------------

\* the element of U16 + 2 characters: the dash, U16 - 1 times 'a', and the
\* two characters of t at the indices U16 and U16 + 1
WideArg(t) ==
  [ n \in 1..(U16 + 2) |->
      IF n = 1 THEN "-" ELSE IF n <= U16 THEN "a" ELSE t[n - U16] ]

\* the quadruple after c - 1 calls since the fresh state of the tests, each
\* of which returned one 'a' of the cluster: optind and optind_prev are 1,
\* the cursor is c, optopt is 'a', optarg is NULL
AfterCalls(c) ==
  [TestFresh EXCEPT !.optind_prev = 1, !.nextchar_idx = c, !.optopt = "a"]

\* of argv[1] the state holds the last two characters only; the caller has
\* been returned all but the last three, two or one of the U16 - 1 options
\* before them
InitWide ==
  InitWith({1},
           [{1} -> [argv : { << t >> : t \in [1..2 -> {"a", "b", "x"}] },
                    optstring : { << "a", "b" >>, << "a" >> },
                    longopts : {NullTable}, wantIndex : {FALSE},
                    longonly : {FALSE}]],
           { AfterCalls(c) : c \in (U16 - 3)..(U16 - 1) }, {FALSE},
           [k \in {1} |-> [calls |-> MaxCallsWide, sets |-> 0]])

\* the caller of quadruple k calls the engine once, in a build without
\* long options, on the argv of the command name and the whole element
CallWide(k) ==
  /\ Len(hist[k]) < cap[k].calls
  /\ \E arg \in { WideArg(in[k].argv[1]) } :
       \E r \in { zephyr_getopt([in[k] EXCEPT !.argv = << CMD, arg >>], st[k],
                                cfgLong, "fault", EOF) } :
          /\ st' = [st EXCEPT ![k] = r.s]
          /\ hist' = [hist EXCEPT ![k] = Append(@, HistEntry(r))]
          /\ last' = [op |-> "call", k |-> k, pre |-> st[k], out |-> r,
                      reset |-> FALSE, u |-> << "fault", EOF >>,
                      len |-> Len(arg)]
  /\ UNCHANGED << cfgLong, in, st0, sets, cap >>

NextWide == \E k \in DOMAIN st : CallWide(k)

SpecWide == InitWide /\ [][NextWide]_vars

\* ------------------------------------------------------------------------
\* Vocabulary of the properties
\* ------------------------------------------------------------------------

LastCall == last.op = "call"

\* the index the engine scans at when entered with state s
CurIdx(s) == IF s.optind < 1 THEN 1 ELSE s.optind

Argc(k) == Len(in[k].argv)

Registered(k, c) ==
  /\ getopt_char_to_mask_index(c) >= 0
  /\ getopt_char_to_mask_index(c) \in getopt_parse_optstring(in[k].optstring).omask

RequiresArg(k, c) ==
  /\ getopt_char_to_mask_index(c) >= 0
  /\ getopt_char_to_mask_index(c) \in getopt_parse_optstring(in[k].optstring).amask

LeadingColon(k) == At(in[k].optstring, 0) = ":"

\* a call whose exit was taken in the short option scanner
ShortPaths == {"unknown", "inline", "separate", "missing", "last_noarg", "cluster"}

\* the last operation was a call on quadruple k that examined a character in
\* the short option scanner
ShortCall(k) == LastCall /\ last.k = k /\ last.out.path \in ShortPaths

\* the element and the character that call examined
ExArg(k) == Argv(in[k].argv, last.out.i)

ExChar(k) == At(ExArg(k), last.out.j)

\* single-dash elements of quadruple k are scanned as short options
ShortOnly(k) == ~(cfgLong /\ in[k].longonly)

\* arg is a cluster -c1...cn of registered options that take no argument
IsCluster(k, arg) ==
  /\ Len(arg) >= 2
  /\ At(arg, 0) = "-"
  /\ \A p \in 1..(Len(arg) - 1) :
       Registered(k, At(arg, p)) /\ ~RequiresArg(k, At(arg, p))

\* ------------------------------------------------------------------------
\* Properties
\* ------------------------------------------------------------------------

\* C1: from a fresh state that the caller never wrote to, when argv[1] is a
\* cluster -c1...cn of registered no-argument options, the m-th call
\* (m <= n) returns cm; optind is 1 after each of the first n-1 calls and 2
\* after the n-th.
C1_Cluster ==
  \A k \in DOMAIN st :
    (sets[k] = 0 /\ Argc(k) >= 2 /\ ShortOnly(k)
       /\ IsCluster(k, Argv(in[k].argv, 1)))
    => LET arg == Argv(in[k].argv, 1)
           n == Len(arg) - 1
       IN \A m \in 1..Len(hist[k]) :
            m <= n => /\ hist[k][m].ret = At(arg, m)
                      /\ hist[k][m].optind = IF m < n THEN 1 ELSE 2

\* a cluster of three options has been returned option by option
C1_Witness ==
  \E k \in DOMAIN st :
    /\ sets[k] = 0 /\ Argc(k) >= 2 /\ ShortOnly(k)
    /\ IsCluster(k, Argv(in[k].argv, 1))
    /\ Len(Argv(in[k].argv, 1)) = 4
    /\ Len(hist[k]) = 3
    /\ hist[k][2].optind = 1
    /\ hist[k][3].optind = 2

C3_Unknown ==
  \A k \in DOMAIN st :
    (ShortCall(k) /\ ~Registered(k, ExChar(k)))
    => /\ last.out.ret = "?"
       /\ st[k].optopt = ExChar(k)
       /\ last.out.i = CurIdx(last.pre)
       /\ st[k].optind = last.out.i

\* an unregistered character was met in the middle of a cluster, under an
\* optstring with a leading colon
C3_Witness ==
  \E k \in DOMAIN st :
    /\ ShortCall(k) /\ ~Registered(k, ExChar(k))
    /\ LeadingColon(k)
    /\ last.out.j = 2
    /\ ExChar(k) = "b"

\* C4: when the option examined requires an argument, ends its element and
\* the element is the last of argv, the call returns ':' under a leading
\* colon and '?' otherwise, optopt is the option and optind stays at the
\* element.
C4_Missing ==
  \A k \in DOMAIN st :
    (ShortCall(k) /\ Registered(k, ExChar(k)) /\ RequiresArg(k, ExChar(k))
       /\ At(ExArg(k), last.out.j + 1) = NUL
       /\ last.out.i + 1 >= Argc(k))
    => /\ last.out.ret = IF LeadingColon(k) THEN ":" ELSE "?"
       /\ st[k].optopt = ExChar(k)
       /\ last.out.i = CurIdx(last.pre)
       /\ st[k].optind = last.out.i
       /\ last.pre.optind >= 1 => st[k].optind = last.pre.optind

\* -o was the last element and ':' was returned
C4_Witness ==
  \E k \in DOMAIN st :
    /\ ShortCall(k) /\ RequiresArg(k, ExChar(k))
    /\ At(ExArg(k), last.out.j + 1) = NUL
    /\ last.out.i + 1 >= Argc(k)
    /\ LeadingColon(k)
    /\ last.out.ret = ":"

\* the element is exactly "--"
IsMarker(arg) == arg = << "-", "-" >>

\* the element is an operand: it does not start with a dash, or is "-"
IsOperand(arg) == Len(arg) = 0 \/ arg[1] # "-" \/ arg = << "-" >>

\* the last operation was a call on quadruple k that found an element to scan
ScanCall(k) == LastCall /\ last.k = k /\ CurIdx(last.pre) < Argc(k)

C6_Operand ==
  \A k \in DOMAIN st :
    /\ (ScanCall(k) /\ IsOperand(Argv(in[k].argv, CurIdx(last.pre))))
       => /\ last.out.ret = EOF
          /\ st[k].optind = CurIdx(last.pre)
          /\ last.pre.optind >= 1 => st[k].optind = last.pre.optind
    /\ sets[k] = 0
       => \A m \in 1..Len(hist[k]) : \A n \in 1..Len(hist[k]) :
            (m < n /\ hist[k][m].path = "operand")
            => /\ hist[k][n].ret = EOF
               /\ hist[k][n].path = "operand"
               /\ hist[k][n].optind = hist[k][m].optind

\* two calls stopped at an operand that is followed by an option
C6_Witness ==
  \E k \in DOMAIN st :
    /\ sets[k] = 0 /\ Len(hist[k]) >= 2
    /\ hist[k][1].path = "operand"
    /\ hist[k][2].ret = EOF
    /\ st[k].optind = 1
    /\ Argc(k) >= 3
    /\ Argv(in[k].argv, 2) = << "-", "a", "b", "a" >>

\* C7 as claimed: a call made right after the caller wrote 1 to optind
\* returns what a call on a fresh state returns for the same inputs, scans
\* the same character and leaves the same optind.
C7_Original ==
  \A k \in DOMAIN st :
    (LastCall /\ last.k = k /\ last.reset /\ last.pre.optind = 1)
    => \A f \in FreshStates :
         LET fr == zephyr_getopt(in[k], f, cfgLong, last.u[1], last.u[2])
         IN /\ last.out.ret = fr.ret
            /\ last.out.j = fr.j
            /\ st[k].optind = fr.s.optind

\* the state and the results of n calls made one after the other, with
\* nothing in between, on inputs inp from state s0
RECURSIVE Alone(_, _, _)
Alone(inp, s0, n) ==
  IF n = 0 THEN [s |-> s0, h |-> << >>]
  ELSE LET p == Alone(inp, s0, n - 1)
           r == zephyr_getopt(inp, p.s, cfgLong, "fault", EOF)
       IN [s |-> r.s, h |-> Append(p.h, HistEntry(r))]

C9_Replay ==
  \A k \in DOMAIN st :
    sets[k] = 0
    => LET a == Alone(in[k], st0[k], Len(hist[k]))
       IN \A m \in 1..Len(hist[k]) :
            /\ hist[k][m].ret = a.h[m].ret
            /\ hist[k][m].optind = a.h[m].optind

\* the name the long option matcher compares: the element after its dashes,
\* up to the end or the first '='
RECURSIVE NameEnd(_, _)
NameEnd(arg, p) ==
  IF At(arg, p) = NUL \/ At(arg, p) = "=" THEN p ELSE NameEnd(arg, p + 1)

NamePart(arg, off) == SubSeq(arg, off + 1, NameEnd(arg, off))

\* the last call on quadruple k reported the match of a long option
LongMatched(k) == LastCall /\ last.k = k /\ last.out.path = "long"

\* C10 as claimed: whenever the matcher matches a descriptor, the name part of
\* the element equals the full name of a descriptor of the table.
C10_Exact ==
  \A k \in DOMAIN st :
    LongMatched(k)
    => LET arg == Argv(in[k].argv, last.out.i)
           off == long_skip(arg, in[k].longonly)
       IN \E e \in 1..Len(in[k].longopts.ents) :
            in[k].longopts.ents[e].name = NamePart(arg, off)

\* ------------------------------------------------------------------------
\* Vocabulary of the long option properties
\* ------------------------------------------------------------------------

\* the last operation was a call on quadruple k that found an element to
\* scan, in a build with long options and with a table supplied
LongCall(k) ==
  ScanCall(k) /\ cfgLong /\ ~in[k].longopts.null

\* the element that call started at, and its index
CurArg(k) == Argv(in[k].argv, CurIdx(last.pre))

Ents(k) == in[k].longopts.ents

\* the value a match of descriptor opt returns
MatchRet(opt) == IF opt.flag = "NULL" THEN opt.val ELSE NUL

\* p is a proper or improper prefix of q
IsPrefix(p, q) == Len(p) <= Len(q) /\ SubSeq(q, 1, Len(p)) = p

\* descriptor e of quadruple k is not preceded by one whose name begins its
\* name
Unshadowed(k, e) ==
  \A e2 \in 1..(e - 1) : ~IsPrefix(Ents(k)[e2].name, Ents(k)[e].name)

\* C11: for a descriptor of kind required whose value is registered as
\* taking an argument, a call at --name=VALUE returns the descriptor's value
\* with optarg VALUE and optind advanced by 1; at --name followed by an
\* element it returns the value with optarg that element and optind advanced
\* by 2; at --name as the last element it returns ':' under a leading colon
\* and '?' otherwise.
C11_Required ==
  \A k \in DOMAIN st :
    LongCall(k)
    => \A e \in 1..Len(Ents(k)) :
         LET opt == Ents(k)[e]
             i == CurIdx(last.pre)
             arg == CurArg(k)
             plain == << "-", "-" >> \o opt.name
         IN (opt.has_arg = "required_argument" /\ RequiresArg(k, opt.val)
               /\ Unshadowed(k, e))
            => /\ (IsPrefix(plain \o << "=" >>, arg) /\ Len(arg) > Len(plain) + 1)
                  => /\ last.out.ret = MatchRet(opt)
                     /\ st[k].optarg # NullPtr
                     /\ Content(in[k].argv, st[k].optarg) = Suffix(arg, Len(plain) + 1)
                     /\ st[k].optind = i + 1
               /\ (arg = plain /\ i + 1 < Argc(k))
                  => /\ last.out.ret = MatchRet(opt)
                     /\ st[k].optarg # NullPtr
                     /\ Content(in[k].argv, st[k].optarg) = Argv(in[k].argv, i + 1)
                     /\ st[k].optind = i + 2
               /\ (arg = plain /\ i + 1 >= Argc(k))
                  => last.out.ret = IF LeadingColon(k) THEN ":" ELSE "?"

\* --file was followed by an element, which became its argument
C11_Witness ==
  \E k \in DOMAIN st :
    /\ LongCall(k)
    /\ Ents(k)[1].has_arg = "required_argument"
    /\ RequiresArg(k, "f")
    /\ CurArg(k) = << "-", "-", "f", "i", "l", "e" >>
    /\ CurIdx(last.pre) = 1
    /\ last.out.ret = "f"
    /\ st[k].optind = 3
    /\ Content(in[k].argv, st[k].optarg) = << "V" >>

\* C12 as claimed: for a descriptor of kind required whose value is
\* registered as taking an argument, a call at --name= with nothing after
\* the '=' returns ':' under a leading colon and '?' otherwise, and reports
\* no match.
C12_EmptyInline ==
  \A k \in DOMAIN st :
    LongCall(k)
    => \A e \in 1..Len(Ents(k)) :
         LET opt == Ents(k)[e]
         IN (opt.has_arg = "required_argument" /\ RequiresArg(k, opt.val)
               /\ Unshadowed(k, e)
               /\ CurArg(k) = << "-", "-" >> \o opt.name \o << "=" >>)
            => /\ last.out.ret = IF LeadingColon(k) THEN ":" ELSE "?"
               /\ last.out.path = "long_err"

\* number of dash characters the matcher skips in the element of that call
CurOff(k) == long_skip(CurArg(k), in[k].longonly)

\* the indices of the descriptors the matcher's comparison accepts for the
\* element of that call
Accepted(k) ==
  IF CurOff(k) < 0 THEN {}
  ELSE { e \in 1..Len(Ents(k)) : strncmp_eq(CurArg(k), CurOff(k), Ents(k)[e].name) }

\* the last call on quadruple k reported the match of a long option, and e
\* is the first descriptor the comparison accepts
MatchOf(k, e) ==
  /\ LongCall(k) /\ last.out.path = "long"
  /\ e \in Accepted(k)
  /\ \A e2 \in Accepted(k) : e <= e2

\* C13: when the match of a descriptor of kind optional is reported, optind
\* has advanced by exactly 1; with '=' after the name optarg is the text
\* after it, and without it optarg is left as it was, so a following
\* element is never taken as the argument.
C13_Optional ==
  \A k \in DOMAIN st :
    \A e \in 1..Len(in[k].longopts.ents) :
      (MatchOf(k, e) /\ Ents(k)[e].has_arg = "optional_argument")
      => LET i == CurIdx(last.pre)
             p == CurOff(k) + Len(Ents(k)[e].name)
         IN /\ st[k].optind = i + 1
            /\ last.out.ret = MatchRet(Ents(k)[e])
            /\ At(CurArg(k), p) = "="
               => /\ st[k].optarg = Ptr(i, p + 1)
                  /\ Content(in[k].argv, st[k].optarg) = Suffix(CurArg(k), p + 1)
            /\ At(CurArg(k), p) # "=" => st[k].optarg = last.pre.optarg

\* --file of kind optional was matched while another element follows it
C13_Witness ==
  \E k \in DOMAIN st :
    /\ MatchOf(k, 1)
    /\ Ents(k)[1].has_arg = "optional_argument"
    /\ CurArg(k) = << "-", "-", "f", "i", "l", "e" >>
    /\ CurIdx(last.pre) + 1 < Argc(k)
    /\ st[k].optind = CurIdx(last.pre) + 1
    /\ st[k].optarg = NullPtr

\* C14: when the match of a descriptor with a flag pointer is reported, the
\* descriptor's value is stored through the pointer, the call returns 0 and
\* optopt is 0, and no other flag variable changes; when the descriptor has
\* no flag pointer the call returns its value and no flag variable changes;
\* a call that reports no match changes no flag variable.
C14_Flags ==
  \A k \in DOMAIN st :
    /\ \A e \in 1..Len(in[k].longopts.ents) :
         MatchOf(k, e)
         => LET opt == Ents(k)[e]
            IN IF opt.flag = "NULL"
               THEN last.out.ret = opt.val /\ st[k].flags = last.pre.flags
               ELSE /\ last.out.ret = NUL
                    /\ st[k].optopt = NUL
                    /\ st[k].flags[opt.flag] = opt.val
                    /\ \A f \in FlagIds \ {opt.flag} :
                         st[k].flags[f] = last.pre.flags[f]
    /\ (LastCall /\ last.k = k /\ last.out.path # "long")
       => st[k].flags = last.pre.flags

\* --verb with a flag pointer was matched: the flag variable went from 0 to
\* 'v' and the call returned 0
C14_Witness ==
  \E k \in DOMAIN st :
    /\ MatchOf(k, 2)
    /\ Ents(k)[2].flag = "F1"
    /\ last.pre.flags["F1"] = NUL
    /\ st[k].flags["F1"] = "v"
    /\ last.out.ret = NUL

\* C15: when a match is reported and the caller passed a longindex
\* pointer, *longindex is the table index, counted from 0, of the first
\* descriptor in table order that the comparison accepts; a call that
\* reports no match leaves *longindex as it was.
C15_LongIndex ==
  \A k \in DOMAIN st :
    /\ \A e \in 1..Len(in[k].longopts.ents) :
         (MatchOf(k, e) /\ in[k].wantIndex) => st[k].longindex = e - 1
    /\ (LastCall /\ last.k = k /\ last.out.path # "long")
       => st[k].longindex = last.pre.longindex

\* --file was matched against a table that holds the name twice, and the
\* index stored is that of the first of the two descriptors
C15_Witness ==
  \E k \in DOMAIN st :
    /\ MatchOf(k, 1)
    /\ Accepted(k) = {1, 2}
    /\ in[k].wantIndex
    /\ last.pre.longindex = -1
    /\ st[k].longindex = 0
    /\ last.out.ret = "f"

\* C16 as claimed: with a table supplied and longonly inactive, a call at an
\* element that begins with "--", is longer than that and is accepted by no
\* descriptor returns '?', leaves optind at the element, and does not scan
\* the element as short options.
C16_NoShortFallback ==
  \A k \in DOMAIN st :
    (LongCall(k) /\ ~in[k].longonly
       /\ IsPrefix(<< "-", "-" >>, CurArg(k)) /\ Len(CurArg(k)) > 2
       /\ Accepted(k) = {})
    => /\ last.out.ret = "?"
       /\ st[k].optind = CurIdx(last.pre)
       /\ last.out.path \notin ShortPaths

\* the element begins with exactly one dash and has a character after it
SingleDash(arg) == Len(arg) >= 2 /\ arg[1] = "-" /\ arg[2] # "-"

\* the descriptors whose name the comparison accepts for the text after the
\* one dash of the element of that call
AcceptedAfterDash(k) ==
  { e \in 1..Len(Ents(k)) : strncmp_eq(CurArg(k), 1, Ents(k)[e].name) }

\* the inputs of quadruple k with the element at index i given a second dash
Doubled(k, i) ==
  [in[k] EXCEPT !.argv = [@ EXCEPT ![i + 1] = << "-" >> \o @]]

\* what a caller can observe of results r1 (on inputs in1) and r2 (on in2)
\* of calls entered with state pre: optarg is left as it was by both, or is
\* set by both to the same text
SameOutcome(pre, r1, in1, r2, in2) ==
  /\ r1.ret = r2.ret
  /\ r1.s.optind = r2.s.optind
  /\ r1.s.optopt = r2.s.optopt
  /\ r1.s.longindex = r2.s.longindex
  /\ r1.s.flags = r2.s.flags
  /\ \/ r1.s.optarg = pre.optarg /\ r2.s.optarg = pre.optarg
     \/ /\ r1.s.optarg # NullPtr /\ r2.s.optarg # NullPtr
        /\ Content(in1.argv, r1.s.optarg) = Content(in2.argv, r2.s.optarg)

\* C17: at an element with a single dash, a call with longonly active and a
\* descriptor accepting the text after the dash gives the outcome the same
\* call gives for the element written with "--"; with longonly active and
\* no descriptor accepting it the call is exactly the call with longonly
\* inactive and ends in the short option scanner; with longonly inactive
\* the element is never matched against the table.
C17_LongOnly ==
  \A k \in DOMAIN st :
    (LongCall(k) /\ SingleDash(CurArg(k)))
    => LET i == CurIdx(last.pre)
       IN /\ (in[k].longonly /\ AcceptedAfterDash(k) # {})
             => /\ last.out.path \in {"long", "long_err"}
                /\ \A r \in { zephyr_getopt(Doubled(k, i), last.pre, cfgLong,
                                            last.u[1], last.u[2]) } :
                     SameOutcome(last.pre, last.out, in[k], r, Doubled(k, i))
          /\ (in[k].longonly /\ AcceptedAfterDash(k) = {})
             => /\ last.out.path \in ShortPaths
                /\ last.out = zephyr_getopt([in[k] EXCEPT !.longonly = FALSE],
                                            last.pre, cfgLong,
                                            last.u[1], last.u[2])
          /\ ~in[k].longonly
             => /\ last.out.path \in ShortPaths
                /\ last.out = zephyr_getopt(in[k], last.pre, FALSE,
                                            last.u[1], last.u[2])

\* with longonly active, a single-dash element was matched as a long option
\* and the cluster -vv after it was then returned as v and v
C17_Witness ==
  \E k \in DOMAIN st :
    /\ LongCall(k) /\ in[k].longonly
    /\ Len(hist[k]) = 3
    /\ SingleDash(Argv(in[k].argv, 1))
    /\ hist[k][1].path = "long"
    /\ CurArg(k) = << "-", "v", "v" >>
    /\ hist[k][2].ret = "v" /\ hist[k][2].path = "cluster"
    /\ hist[k][3].ret = "v" /\ hist[k][3].path = "last_noarg"

\* C18 as claimed: after a call that returns a matched option taking no
\* argument and storing to no flag (a short option without ':', or a long
\* option of kind no_argument with a NULL flag), optarg is null.
C18_Cleared ==
  \A k \in DOMAIN st :
    /\ (ShortCall(k) /\ last.out.path \in {"last_noarg", "cluster"})
       => st[k].optarg = NullPtr
    /\ \A e \in 1..Len(in[k].longopts.ents) :
         (MatchOf(k, e) /\ Ents(k)[e].has_arg = "no_argument"
            /\ Ents(k)[e].flag = "NULL")
         => st[k].optarg = NullPtr

\* the last operation was a call on quadruple k that returned -1
EndCall(k) == LastCall /\ last.k = k /\ last.out.ret = EOF

\* that call left optopt, optarg, the flags and longindex as it found them
NoSideEffects(k) ==
  /\ st[k].optopt = last.pre.optopt
  /\ st[k].optarg = last.pre.optarg
  /\ st[k].flags = last.pre.flags
  /\ st[k].longindex = last.pre.longindex

\* the current element of that call is exactly "--"
AtMarker(k) == ScanCall(k) /\ IsMarker(CurArg(k))

\* C19 as claimed: a call that returns -1 changes none of optopt, optarg,
\* the flags and longindex, and leaves optind as the caller passed it unless
\* the current element is exactly "--".
C19_Original ==
  \A k \in DOMAIN st :
    EndCall(k)
    => /\ NoSideEffects(k)
       /\ ~AtMarker(k) => st[k].optind = last.pre.optind

\* C19 (amended): a call that returns -1 changes none of optopt, optarg, the
\* flags and longindex; optind is left at the index the call scans at, which
\* is the value passed in, or 1 when that value was below 1, unless the
\* current element is exactly "--"; a call entered with that index at or
\* beyond argc returns -1.
C19_EndOfOptions ==
  \A k \in DOMAIN st :
    /\ EndCall(k)
       => /\ NoSideEffects(k)
          /\ ~AtMarker(k) => st[k].optind = CurIdx(last.pre)
    /\ (LastCall /\ last.k = k /\ CurIdx(last.pre) >= Argc(k))
       => EndCall(k)

\* a call returned -1 at an operand after an earlier call had stored an
\* argument and an option character
C19_Witness ==
  \E k \in DOMAIN st :
    /\ EndCall(k) /\ ~AtMarker(k)
    /\ last.out.path = "operand"
    /\ last.pre.optarg # NullPtr
    /\ last.pre.optopt # NUL

\* the element is -c for one option character c that requires an argument
LoneArgOption(k, arg) ==
  Len(arg) = 2 /\ arg[1] = "-" /\ RequiresArg(k, arg[2])

\* C20: a call whose current element is -c, with c an option that requires
\* an argument, and that has an element after it returns c with optarg
\* pointing to the start of that next element, whatever it holds, and with
\* optind two past the current index; the call after it, when the caller
\* wrote nothing in between, scans at that index and examines no earlier
\* element.
C20_Verbatim ==
  \A k \in DOMAIN st :
    /\ (ScanCall(k) /\ LoneArgOption(k, CurArg(k))
          /\ CurIdx(last.pre) + 1 < Argc(k))
       => LET i == CurIdx(last.pre)
          IN /\ last.out.ret = CurArg(k)[2]
             /\ last.out.path = "separate"
             /\ st[k].optarg = Ptr(i + 1, 0)
             /\ Content(in[k].argv, st[k].optarg) = Argv(in[k].argv, i + 1)
             /\ st[k].optind = i + 2
    /\ (LastCall /\ last.k = k /\ ~last.reset /\ Len(hist[k]) >= 2
          /\ hist[k][Len(hist[k]) - 1].path = "separate")
       => LET n == hist[k][Len(hist[k]) - 1].optind
          IN /\ CurIdx(last.pre) = n
             /\ last.out.i = -1 \/ last.out.i >= n

\* -o took the element -aba after it as its argument, and the call after
\* that found no element left to scan
C20_Witness ==
  \E k \in DOMAIN st :
    /\ LastCall /\ last.k = k /\ ~last.reset /\ Len(hist[k]) = 2
    /\ Argc(k) = 3
    /\ LoneArgOption(k, Argv(in[k].argv, 1))
    /\ Argv(in[k].argv, 2) = << "-", "a", "b", "a" >>
    /\ hist[k][1].ret = "o" /\ hist[k][1].path = "separate"
    /\ hist[k][1].optind = 3
    /\ last.pre.optarg = Ptr(2, 0)
    /\ hist[k][2].ret = EOF

\* position of the first occurrence of c in the optstring o, 0-based
FirstPos(o, c) == CHOOSE p \in 0..(Len(o) - 1) :
                    At(o, p) = c /\ \A q \in 0..(p - 1) : At(o, q) # c

\* C21: a character that occurs in the optstring is registered, and it
\* requires an argument exactly when its first occurrence is followed by a
\* colon; so with "aa:" a call at the element -a returns a, stores no
\* argument and steps to the next element.
C21_Repeat ==
  \A k \in DOMAIN st :
    LET o == in[k].optstring
    IN /\ \A c \in { o[p] : p \in 1..Len(o) } \ {":"} :
            /\ Registered(k, c)
            /\ RequiresArg(k, c) <=> At(o, FirstPos(o, c) + 1) = ":"
       /\ (ScanCall(k) /\ CurArg(k) = << "-", "a" >>
             /\ InSeq(o, "a")
             /\ At(o, FirstPos(o, "a") + 1) # ":")
          => /\ last.out.ret = "a"
             /\ st[k].optarg = NullPtr
             /\ st[k].optind = CurIdx(last.pre) + 1

\* with optstring "aa:" and the arguments -a -a V the first two calls have
\* returned a and no argument is stored
C21_Witness ==
  \E k \in DOMAIN st :
    /\ in[k].optstring = << "a", "a", ":" >>
    /\ in[k].argv = << CMD, << "-", "a" >>, << "-", "a" >>, << "V" >> >>
    /\ LastCall /\ Len(hist[k]) = 2
    /\ hist[k][1].ret = "a" /\ hist[k][2].ret = "a"
    /\ last.pre.optarg = NullPtr /\ st[k].optarg = NullPtr
    /\ st[k].optind = 3

\* the arguments the engine is to receive from wrapper w called with a
Forwarded(w, a) ==
  [argv |-> a.argv, optstring |-> a.optstring,
   longopts |-> IF w \in {"getopt", "getopt_r"} THEN NullTable ELSE a.longopts,
   wantIndex |-> IF w \in {"getopt", "getopt_r"} THEN FALSE ELSE a.wantIndex,
   longonly |-> w \in {"getopt_long_only", "getopt_long_only_r"}]

\* C22 as claimed: a call through a wrapper is the engine called with the
\* caller's argv, optstring and state, with no table and longonly false for
\* getopt and getopt_r, with the caller's table and longonly false for
\* getopt_long and getopt_long_r, and with the caller's table and longonly
\* true for getopt_long_only and getopt_long_only_r.
C22_Forward ==
  \A k \in DOMAIN st :
    (LastCall /\ last.k = k /\ "w" \in DOMAIN last)
    => /\ Passed(last.w, in[k]) = Forwarded(last.w, in[k])
       /\ last.out = zephyr_getopt(Forwarded(last.w, in[k]), last.pre,
                                   cfgLong, last.u[1], last.u[2])

\* the values a call on quadruple k may return: -1, 0, '?', ':', a
\* registered option character or the value of a descriptor
Results(k) ==
  {EOF, NUL, "?", ":"}
    \cup { c \in { in[k].optstring[p] : p \in 1..Len(in[k].optstring) } :
             Registered(k, c) }
    \cup { in[k].longopts.ents[e].val : e \in 1..Len(in[k].longopts.ents) }

\* C23 as claimed: every call returns one of -1, 0, '?', ':' or the value
\* of a matched option; none stops the program, reads through an absent
\* table or returns a value it never assigned.
C23_Total ==
  \A k \in DOMAIN st :
    (LastCall /\ last.k = k)
    => /\ last.out.ret # FAULT
       /\ last.out.path \notin {"fault", "fell_out"}
       /\ last.out.ret \in Results(k)

\* descriptor e is the first the comparison accepts for the element of the
\* last call on quadruple k, whatever that call reported
FirstAccepted(k, e) ==
  LongCall(k) /\ e \in Accepted(k) /\ \A e2 \in Accepted(k) : e <= e2

\* C24 as claimed: a call that reports an unknown short option or a short
\* option without its argument leaves optopt at the character examined,
\* and a call at the last element that names a long option of kind
\* required, without '=', returns ':' or '?' and leaves optopt at the
\* value of that descriptor.
C24_ErrorChar ==
  \A k \in DOMAIN st :
    /\ (ShortCall(k) /\ last.out.path \in {"unknown", "missing"})
       => st[k].optopt = ExChar(k)
    /\ \A e \in 1..Len(in[k].longopts.ents) :
         (FirstAccepted(k, e)
            /\ Ents(k)[e].has_arg = "required_argument"
            /\ RequiresArg(k, Ents(k)[e].val)
            /\ At(CurArg(k), CurOff(k) + Len(Ents(k)[e].name)) = NUL
            /\ CurIdx(last.pre) + 1 >= Argc(k))
         => /\ last.out.ret = IF LeadingColon(k) THEN ":" ELSE "?"
            /\ st[k].optopt = Ents(k)[e].val

\* C25 as claimed: a caller that starts from a fresh state and calls until
\* it receives -1 does receive -1.
C25_Progress ==
  <>(\A k \in DOMAIN st :
        IF hist[k] = << >> THEN FALSE ELSE hist[k][1].ret = EOF)

\* the option characters of argv of quadruple k from character j of element
\* i on, in left-to-right order up to the first operand or "--", each option
\* that requires an argument followed by a skip over its argument; "BAD"
\* marks an unregistered character or an argument that is not there
RECURSIVE Expect(_, _, _)
Expect(k, i, j) ==
  IF i >= Argc(k) THEN << >>
  ELSE LET arg == Argv(in[k].argv, i)
           c == At(arg, j)
       IN IF j = 1 /\ (IsOperand(arg) \/ IsMarker(arg)) THEN << >>
          ELSE IF c = NUL THEN Expect(k, i + 1, 1)
          ELSE IF ~Registered(k, c) THEN << "BAD" >>
          ELSE IF ~RequiresArg(k, c) THEN << c >> \o Expect(k, i, j + 1)
          ELSE IF At(arg, j + 1) # NUL THEN << c >> \o Expect(k, i + 1, 1)
          ELSE IF i + 1 < Argc(k) THEN << c >> \o Expect(k, i + 2, 1)
          ELSE << "BAD" >>

\* C26 as claimed: in a session from a fresh state that the caller never
\* wrote to, over an argv whose option elements before the first operand
\* hold only registered short options with their arguments available, the
\* m-th call returns the m-th option character in left-to-right order and
\* the call after the last of them returns -1.
C26_InOrder ==
  \A k \in DOMAIN st :
    (sets[k] = 0 /\ ShortOnly(k))
    => \A x \in { Expect(k, 1, 1) } :
         ~InSeq(x, "BAD")
         => \A m \in 1..Len(hist[k]) :
              /\ m <= Len(x) => hist[k][m].ret = x[m]
              /\ m = Len(x) + 1 => hist[k][m].ret = EOF

\* arg is -c1...cn o text: n >= 1 registered options without argument, then
\* at position p an option that requires one, then at least one character
MixedCluster(k, arg, p) ==
  /\ p >= 2 /\ p + 1 < Len(arg)
  /\ At(arg, 0) = "-"
  /\ \A q \in 1..(p - 1) :
       Registered(k, At(arg, q)) /\ ~RequiresArg(k, At(arg, q))
  /\ RequiresArg(k, At(arg, p))

Unused(s, oe) ==
  [s EXCEPT !.optind = 1, !.optind_prev = oe.optind_prev,
            !.nextchar_idx = oe.nextchar_idx]

\* result r with the cursor value 0, which stands for the start of an
\* element as 1 does, written as 1
StartAsOne(r) ==
  [r EXCEPT !.s.nextchar_idx = IF @ = 0 THEN 1 ELSE @]

\* C28: a call entered with optind < 1 returns the result and leaves the
\* state of the same call entered with optind = 1 and the initializer in
\* the cursor slot, whatever the cursor slot held; against a state whose
\* cursor slot is all zero, as the globals start, the result and the state
\* left are the same too, the cursor standing at the same position (0 and 1
\* both stand for the start of an element).
C28_FullReset ==
  \A k \in DOMAIN st :
    (LastCall /\ last.k = k /\ last.pre.optind < 1)
    => /\ last.out = zephyr_getopt(in[k],
                                   Unused(last.pre, OPTERR_INITIALIZER),
                                   cfgLong, last.u[1], last.u[2])
       /\ StartAsOne(last.out)
            = StartAsOne(zephyr_getopt(in[k], Unused(last.pre, ZeroOpterr),
                                       cfgLong, last.u[1], last.u[2]))

\* the caller wrote 0 to optind while the cursor stood inside a cluster,
\* and the call scanned argv[1] from its first option character
C28_Witness ==
  \E k \in DOMAIN st :
    /\ LastCall /\ last.k = k /\ last.reset
    /\ last.pre.optind = 0
    /\ last.pre.nextchar_idx >= 2
    /\ last.out.path \in ShortPaths
    /\ last.out.i = 1 /\ last.out.j = 1

\* the last operation was a call on quadruple k, entered with an optind
\* >= 1 that the caller had written after an earlier call and that differs
\* from the optind that call left
Repositioned(k) ==
  /\ LastCall /\ last.k = k /\ last.reset
  /\ Len(hist[k]) >= 2
  /\ last.pre.optind >= 1
  /\ last.pre.optind # hist[k][Len(hist[k]) - 1].optind

\* C29: a call made after the caller moved optind to a value >= 1 other
\* than the one the call before left gives the result of the same call
\* entered with the cursor at 1, wherever the cursor stood; when it examines
\* a short option, that is character 1 of argv[optind].
C29_Reposition ==
  \A k \in DOMAIN st :
    Repositioned(k)
    => /\ last.out = zephyr_getopt(in[k],
                                   [last.pre EXCEPT !.nextchar_idx = 1],
                                   cfgLong, last.u[1], last.u[2])
       /\ last.out.path \in ShortPaths
          => last.out.i = last.pre.optind /\ last.out.j = 1

\* the call before stopped inside a cluster of argv[1], the caller wrote 2
\* to optind, and the call examined character 1 of argv[2]
C29_Witness ==
  \E k \in DOMAIN st :
    /\ Repositioned(k)
    /\ last.pre.nextchar_idx >= 2
    /\ last.pre.optind = 2
    /\ hist[k][Len(hist[k]) - 1].optind = 1
    /\ last.out.path \in ShortPaths
    /\ last.out.i = 2 /\ last.out.j = 1

\* C30 as claimed: when no table is supplied, a call at an option element
\* is answered by the short option scanner alone: its result is that of an
\* engine built without long options, and an element that starts with "--"
\* and is longer than that, scanned from its character 1, gives '?' with
\* optopt '-'.
C30_NoTable ==
  \A k \in DOMAIN st :
    (ScanCall(k) /\ in[k].longopts.null
       /\ ~IsOperand(CurArg(k)) /\ ~IsMarker(CurArg(k)))
    => /\ last.out.path \in ShortPaths
       /\ last.out = zephyr_getopt(in[k], last.pre, FALSE,
                                   last.u[1], last.u[2])
       /\ (IsPrefix(<< "-", "-" >>, CurArg(k)) /\ last.out.j = 1)
          => last.out.ret = "?" /\ st[k].optopt = "-"

\* ------------------------------------------------------------------------
\* Long options against the short options of the same character
\* ------------------------------------------------------------------------

\* C31: a call that comes to a descriptor of kind none whose value
\* character is a short option that requires an argument returns ':' with
\* a leading colon in optstring and '?' without, leaves optind where it
\* scanned, and writes neither the flag variable nor longindex.
C31_Conflict ==
  \A k \in DOMAIN st : \A e \in 1..Len(in[k].longopts.ents) :
    (/\ FirstAccepted(k, e)
     /\ Ents(k)[e].has_arg = "no_argument"
     /\ RequiresArg(k, Ents(k)[e].val))
    => /\ last.out.ret = IF LeadingColon(k) THEN ":" ELSE "?"
       /\ last.out.path = "long_err"
       /\ st[k].optind = CurIdx(last.pre)
       /\ st[k].flags = last.pre.flags
       /\ st[k].longindex = last.pre.longindex

C31_Witness ==
  \E k \in DOMAIN st : \E e \in 1..Len(in[k].longopts.ents) :
    /\ FirstAccepted(k, e)
    /\ Ents(k)[e].has_arg = "no_argument"
    /\ RequiresArg(k, Ents(k)[e].val)
    /\ Ents(k)[e].flag # "NULL" /\ in[k].wantIndex
    /\ last.out.ret = ":"

\* C32 as claimed: a call that comes to a descriptor whose value character
\* does not stand in optstring returns the same result and leaves the same
\* optarg and optind as the same call made with an optstring that registers
\* the character consistently with the descriptor: alone for kind none,
\* followed by a colon for the other kinds.
C32_Unregistered ==
  \A k \in DOMAIN st : \A e \in 1..Len(in[k].longopts.ents) :
    (FirstAccepted(k, e) /\ ~Registered(k, Ents(k)[e].val))
    => \A r \in { zephyr_getopt(
                    [in[k] EXCEPT !.optstring =
                       IF Ents(k)[e].has_arg = "no_argument"
                       THEN << Ents(k)[e].val >>
                       ELSE << Ents(k)[e].val, ":" >>],
                    last.pre, cfgLong, last.u[1], last.u[2]) } :
         /\ last.out.ret = r.ret
         /\ st[k].optarg = r.s.optarg
         /\ st[k].optind = r.s.optind

\* C33 as claimed: a call that the long option matcher ends with an error
\* result leaves optind, optarg, every flag variable and longindex at the
\* values they had before the call.
C33_ErrorKeeps ==
  \A k \in DOMAIN st :
    (LongCall(k) /\ last.out.path = "long_err")
    => /\ last.out.ret \in {"?", ":"}
       /\ st[k].optind = last.pre.optind
       /\ st[k].optarg = last.pre.optarg
       /\ st[k].flags = last.pre.flags
       /\ st[k].longindex = last.pre.longindex

\* ------------------------------------------------------------------------
\* The masks of an optstring
\* ------------------------------------------------------------------------

\* C34 as claimed: the masks of every optstring satisfy amask within omask,
\* omask holds only indices of alphanumeric characters, and the masks are
\* those of the optstring without any one of its characters outside
\* [a-zA-Z0-9:].
C34_Original ==
  \A k \in DOMAIN st :
    LET o == in[k].optstring
        Invalid(c) == getopt_char_to_mask_index(c) < 0 /\ c # ":"
        Without(p) == SubSeq(o, 1, p - 1) \o SubSeq(o, p + 1, Len(o))
    IN (last.op = "parse" /\ last.k = k)
       => /\ last.masks.amask \subseteq last.masks.omask
          /\ \A i \in last.masks.omask : 0 <= i /\ i <= 61
          /\ \A p \in 1..Len(o) :
               Invalid(o[p])
               => \A m \in { getopt_parse_optstring(Without(p)) } :
                    m.omask = last.masks.omask /\ m.amask = last.masks.amask

\* C34: the masks of every optstring satisfy amask within omask, omask
\* holds exactly the indices of the alphanumeric characters of the
\* optstring, and the masks are those of the optstring without one of its
\* characters outside [a-zA-Z0-9:] unless that character stands directly
\* between an alphanumeric character and a colon.
C34_Compiled ==
  \A k \in DOMAIN st :
    LET o == in[k].optstring
        Invalid(c) == getopt_char_to_mask_index(c) < 0 /\ c # ":"
        Without(p) == SubSeq(o, 1, p - 1) \o SubSeq(o, p + 1, Len(o))
        Separates(p) ==
          /\ 1 < p /\ p < Len(o)
          /\ getopt_char_to_mask_index(o[p - 1]) >= 0
          /\ o[p + 1] = ":"
    IN (last.op = "parse" /\ last.k = k)
       => /\ last.masks.amask \subseteq last.masks.omask
          /\ \A i \in last.masks.omask : 0 <= i /\ i <= 61
          /\ last.masks.omask =
               { getopt_char_to_mask_index(o[p]) : p \in 1..Len(o) } \ {-1}
          /\ \A p \in 1..Len(o) :
               (Invalid(o[p]) /\ ~Separates(p))
               => \A m \in { getopt_parse_optstring(Without(p)) } :
                    m.omask = last.masks.omask /\ m.amask = last.masks.amask

C34_Witness ==
  \E k \in DOMAIN st :
    /\ last.op = "parse" /\ last.k = k
    /\ in[k].optstring = << "a", ":", "#", "Z" >>
    /\ last.masks.omask = {0, 51} /\ last.masks.amask = {0}

\* ------------------------------------------------------------------------
\* The course of optind
\* ------------------------------------------------------------------------

\* C35: a call entered with optind >= 1 never lowers optind and adds at
\* most 2 to it: 0 when it returns an option inside a cluster or an error,
\* 1 when it returns an option that took no separate element or steps over
\* `--`, 2 when it returns an option whose argument is the next element.
C35_Growth ==
  \A k \in DOMAIN st :
    LET Growth == st[k].optind - last.pre.optind
        TookNext == st[k].optarg = Ptr(CurIdx(last.pre) + 1, 0)
    IN (LastCall /\ last.k = k /\ ~Faulted /\ last.pre.optind >= 1)
       => /\ Growth \in 0..2
          /\ last.out.path \in {"cluster", "unknown", "missing", "long_err"}
             => Growth = 0
          /\ last.out.path \in {"inline", "last_noarg", "marker"}
             => Growth = 1
          /\ last.out.path = "separate" => Growth = 2
          /\ last.out.path = "long"
             => Growth = IF TookNext THEN 2 ELSE 1
          /\ Len(hist[k]) >= 2 /\ sets[k] = 0
             => hist[k][Len(hist[k]) - 1].optind <= hist[k][Len(hist[k])].optind

C35_Witness ==
  \E k \in DOMAIN st :
    /\ LastCall /\ last.k = k /\ ~Faulted /\ last.pre.optind = 1
    /\ last.out.path = "long"
    /\ st[k].optarg = Ptr(2, 0)
    /\ st[k].optind = 3

\* C36: a call entered with optind <= argc leaves 1 <= optind <= argc; the
\* element it scans has an index below argc, and an argument it reports
\* starts inside the element scanned, after its first character and not
\* after its end, or is the whole next element, whose index is below argc.
C36_Bounds ==
  \A k \in DOMAIN st :
    LET Reported ==
          \/ last.out.path \in {"inline", "separate"}
          \/ last.out.path = "long" /\ st[k].optarg # last.pre.optarg
    IN (LastCall /\ last.k = k /\ ~Faulted /\ last.pre.optind <= Argc(k))
       => /\ 1 <= st[k].optind /\ st[k].optind <= Argc(k)
          /\ last.out.i # -1
             => last.out.i = CurIdx(last.pre) /\ last.out.i < Argc(k)
          /\ Reported
             => \/ /\ st[k].optarg.i = last.out.i
                   /\ 1 <= st[k].optarg.off
                   /\ st[k].optarg.off <= Len(Argv(in[k].argv, last.out.i))
                \/ /\ st[k].optarg = Ptr(last.out.i + 1, 0)
                   /\ last.out.i + 1 < Argc(k)

C36_Witness ==
  \E k \in DOMAIN st :
    /\ LastCall /\ last.k = k /\ ~Faulted
    /\ last.out.path = "long" /\ st[k].optarg # last.pre.optarg
    /\ last.pre.optind = 2 /\ Argc(k) = 3
    /\ st[k].optarg.i = 2 /\ st[k].optarg.off > 1
    /\ st[k].optind = Argc(k)

\* ------------------------------------------------------------------------
\* The engine against getopt_r of getopt_r.c
\* ------------------------------------------------------------------------

\* C37 as claimed: a call of the engine without a table and with longonly
\* false returns what getopt_r of getopt_r.c returns on the same argv,
\* optstring and quadruple, and leaves the same optind, optind_prev,
\* nextchar_idx, optopt and optarg.
C37_SameAsGetoptR ==
  \A k \in DOMAIN st :
    (LastCall /\ last.k = k /\ in[k].longopts.null /\ ~in[k].longonly)
    => \A g \in { getopt_r_c(in[k], last.pre) } :
         /\ last.out.ret = g.ret
         /\ st[k].optind = g.s.optind
         /\ st[k].optind_prev = g.s.optind_prev
         /\ st[k].nextchar_idx = g.s.nextchar_idx
         /\ st[k].optopt = g.s.optopt
         /\ st[k].optarg = g.s.optarg

\* ------------------------------------------------------------------------
\* The two fields in the int opterr
\* ------------------------------------------------------------------------

\* C38: for all 16-bit optind_prev and nextchar_idx, the fields read back
\* from the int are those stored; a store to one field leaves the other as
\* it was; the int is one that four bytes hold; and the int of
\* OPTERR_INITIALIZER is the one that holds optind_prev = 1 and
\* nextchar_idx = 0, which a zeroed opterr does not.
C38_RoundTrip ==
  \A k \in DOMAIN st :
    LET Fields(s) ==
          [optind_prev |-> s.optind_prev, nextchar_idx |-> s.nextchar_idx]
    IN /\ (last.op = "decode" /\ last.k = k)
          => /\ last.field = "none" => Fields(st[k]) = Fields(st0[k])
             /\ last.field = "optind_prev"
                => Fields(st[k]) = [Fields(st0[k]) EXCEPT !.optind_prev = last.v]
             /\ last.field = "nextchar_idx"
                => Fields(st[k]) = [Fields(st0[k]) EXCEPT !.nextchar_idx = last.v]
             /\ last.opterr = int_of_bytes(bytes_of_int(last.opterr, last.order),
                                           last.order)
       /\ (last.op = "encode" /\ last.k = k)
          => /\ (Fields(st[k]) = OPTERR_INITIALIZER)
                <=> (last.opterr = opterr_of(OPTERR_INITIALIZER, last.order))
             /\ (Fields(st[k]) = ZeroOpterr) <=> (last.opterr = 0)

C38_Witness ==
  \E k \in DOMAIN st :
    /\ last.op = "decode" /\ last.k = k
    /\ last.field = "nextchar_idx" /\ last.v = 257
    /\ st0[k].optind_prev = 65535 /\ st0[k].nextchar_idx = 32768
    /\ st[k].optind_prev = 65535 /\ st[k].nextchar_idx = 257
    /\ last.opterr # opterr_of(st0[k], last.order)

\* ------------------------------------------------------------------------
\* optind_prev against optind, and the cursor within the element
\* ------------------------------------------------------------------------

\* C39 as claimed: after every call that reaches the label done the stored
\* optind_prev equals optind, and the call that follows a call inside a
\* cluster, with no write of the caller in between, examines the character
\* at the cursor that call left, at every index of argv.
C39_Stored ==
  \A k \in DOMAIN st :
    /\ (LastCall /\ last.k = k /\ ~Faulted /\ last.out.path # "no_more")
       => st[k].optind_prev = st[k].optind
    /\ (/\ ShortCall(k) /\ sets[k] = 0
        /\ Len(hist[k]) >= 2
        /\ hist[k][Len(hist[k]) - 1].path = "cluster")
       => last.out.j = last.pre.nextchar_idx

\* C40 as claimed: whenever the short option scanner examines a character
\* of an element, the cursor is at least 1 and less than the length of the
\* element, and after a call that returns an option inside a cluster and
\* leaves optind as it was, the stored cursor is again at least 1 and less
\* than the length of that element.
C40_Cursor ==
  \A k \in DOMAIN st :
    LET ExLen == IF "len" \in DOMAIN last THEN last.len ELSE Len(ExArg(k))
    IN /\ ShortCall(k) => 1 <= last.out.j /\ last.out.j < ExLen
       /\ (ShortCall(k) /\ last.out.path = "cluster")
          => /\ st[k].optind = last.out.i
             /\ 1 <= st[k].nextchar_idx /\ st[k].nextchar_idx < ExLen

====
